---- MODULE Spec2Model ----
(***************************************************************************)
(* Multi-instrument options backtesting engine                              *)
(* (scripts/strategies/backtester_multi.py, adaptive_config.py,             *)
(* iron_condor.py, covered_call.py).                                        *)
(*                                                                          *)
(* Units.  Money is in whole dollars per contract.  Option prices are kept  *)
(* in cents, so the code's `price * 100` (dollars per 100-share contract)   *)
(* is the cent amount itself.  Strikes and underlying prices are whole      *)
(* dollars.  Quality scores are kept in units of 1/10000 (0.45 = 4500).     *)
(* Dates are calendar-day numbers.                                          *)
(***************************************************************************)
EXTENDS Integers, Sequences, FiniteSets, TLC

\* ------------------------------------------------------------------------
\* Bounds of the model
\* ------------------------------------------------------------------------
NumDays == 3          \* number of consolidated trading dates of the run
DayGap == 15          \* calendar days between two consecutive trading dates

\* Python's None / NaN for an optional number
None == -999999

\* ------------------------------------------------------------------------
\* Configuration (BacktestConfig) and the inputs a run is given
\* ------------------------------------------------------------------------
valid_tickers == <<"SPY", "GLD">>
Tickers == {valid_tickers[i] : i \in 1..Len(valid_tickers)}

\* self.strategies, in dict order
strategies == <<"iron_condor", "covered_call">>

\* the configurations a run is started with
Configs ==
    {[initial_capital |-> 10000, max_positions |-> 2, max_positions_per_ticker |-> 2],
     [initial_capital |-> 10000, max_positions |-> 3, max_positions_per_ticker |-> 1],
     [initial_capital |-> 6000, max_positions |-> 3, max_positions_per_ticker |-> 2]}

\* all_trading_dates[i]
DateOf(i) == (i - 1) * DayGap

\* ------------------------------------------------------------------------
\* Small helpers
\* ------------------------------------------------------------------------
Abs(x) == IF x < 0 THEN -x ELSE x
Min(a, b) == IF a <= b THEN a ELSE b
Max(a, b) == IF a >= b THEN a ELSE b
Range(s) == {s[i] : i \in 1..Len(s)}

RECURSIVE SumSeq(_)
SumSeq(s) == IF s = <<>> THEN 0 ELSE Head(s) + SumSeq(Tail(s))

RECURSIVE SelectSeqIdx(_, _)
\* the sub-sequence of s at the indices in the set idx, in order
SelectSeqIdx(s, idx) ==
    IF s = <<>> THEN <<>>
    ELSE LET n == Len(s)
             front == SelectSeqIdx(SubSeq(s, 1, n - 1), idx)
         IN IF n \in idx THEN Append(front, s[n]) ELSE front

\* ------------------------------------------------------------------------
\* adaptive_config.py
\* ------------------------------------------------------------------------
VOLATILITY_CONFIGS ==
    [High   |-> [profit_target_pct |-> 25, stop_loss_pct |-> 200],
     Medium |-> [profit_target_pct |-> 35, stop_loss_pct |-> 150],
     Low    |-> [profit_target_pct |-> 50, stop_loss_pct |-> 100]]

DTE_CONFIGS ==
    [ETF       |-> [dte_min |-> 49, dte_max |-> 56],
     Tech      |-> [dte_min |-> 42, dte_max |-> 49],
     Commodity |-> [dte_min |-> 56, dte_max |-> 60]]

TICKER_CLASSIFICATIONS ==
    [SPY  |-> <<"ETF", "Medium">>,
     QQQ  |-> <<"ETF", "Medium">>,
     IWM  |-> <<"ETF", "High">>,
     AAPL |-> <<"Tech", "High">>,
     MSFT |-> <<"Tech", "High">>,
     AMZN |-> <<"Tech", "High">>,
     NVDA |-> <<"Tech", "High">>,
     TSLA |-> <<"Tech", "High">>,
     GLD  |-> <<"Commodity", "High">>,
     SLV  |-> <<"Commodity", "High">>]

\* an override field that is absent is None
TICKER_OVERRIDES ==
    [TSLA |-> [profit_target_pct |-> 20, stop_loss_pct |-> None],
     QQQ  |-> [profit_target_pct |-> 30, stop_loss_pct |-> None],
     SPY  |-> [profit_target_pct |-> 30, stop_loss_pct |-> None]]

_build_config_Blend(ticker) ==
    LET known == ticker \in DOMAIN TICKER_CLASSIFICATIONS
        asset_type == IF known THEN TICKER_CLASSIFICATIONS[ticker][1] ELSE "ETF"
        vol_category == IF known THEN TICKER_CLASSIFICATIONS[ticker][2] ELSE "Medium"
        vol_config == VOLATILITY_CONFIGS[vol_category]
        dte_config == DTE_CONFIGS[asset_type]
        has_override == ticker \in DOMAIN TICKER_OVERRIDES
        profit_target ==
            IF has_override /\ TICKER_OVERRIDES[ticker].profit_target_pct # None
            THEN (TICKER_OVERRIDES[ticker].profit_target_pct + vol_config.profit_target_pct) \div 2
            ELSE vol_config.profit_target_pct
    IN [ticker |-> ticker,
        asset_type |-> asset_type,
        volatility_category |-> vol_category,
        profit_target_pct |-> profit_target,
        stop_loss_pct |-> vol_config.stop_loss_pct,
        dte_min |-> dte_config.dte_min,
        dte_max |-> dte_config.dte_max,
        known |-> known]

_build_config(ticker) ==
    LET known == ticker \in DOMAIN TICKER_CLASSIFICATIONS
        asset_type == IF known THEN TICKER_CLASSIFICATIONS[ticker][1] ELSE "ETF"
        vol_category == IF known THEN TICKER_CLASSIFICATIONS[ticker][2] ELSE "Medium"
        vol_config == VOLATILITY_CONFIGS[vol_category]
        dte_config == DTE_CONFIGS[asset_type]
        has_override == ticker \in DOMAIN TICKER_OVERRIDES
        profit_target ==
            IF has_override /\ TICKER_OVERRIDES[ticker].profit_target_pct # None
            THEN TICKER_OVERRIDES[ticker].profit_target_pct
            ELSE vol_config.profit_target_pct
        stop_loss ==
            IF has_override /\ TICKER_OVERRIDES[ticker].stop_loss_pct # None
            THEN TICKER_OVERRIDES[ticker].stop_loss_pct
            ELSE vol_config.stop_loss_pct
    IN [ticker |-> ticker,
        asset_type |-> asset_type,
        volatility_category |-> vol_category,
        profit_target_pct |-> profit_target,
        stop_loss_pct |-> stop_loss,
        dte_min |-> dte_config.dte_min,
        dte_max |-> dte_config.dte_max,
        known |-> known]

\* The cache is preloaded with _build_config of every classified ticker and
\* filled with _build_config on a miss, so a lookup is _build_config(ticker).
get_config(ticker) == _build_config(ticker)

get_profit_target_Tiered(ticker, premium_collected) ==
    (premium_collected * 50) \div 100

get_profit_target(ticker, premium_collected) ==
    (premium_collected * get_config(ticker).profit_target_pct) \div 100

get_stop_loss(ticker, max_risk) ==
    (Abs(max_risk) * get_config(ticker).stop_loss_pct) \div 100

\* ------------------------------------------------------------------------
\* The historical option chains (the Parquet files MarketDataLoader reads)
\*
\* The rows of one instrument on one date are generated from a small
\* description of that date's market:
\*   spot  0 when the file has no row for the date, else the underlying price
\*   lvl   the level of the quotes: "calm", "ease", "decay" or "spike"
\*   gap   "full": every listed option has a row for every listed expiration
\*         "noexp": only the expirations new entries use have rows
\*         "noleg": the long put has no row
\*         "nan":   the long call has neither close nor vwap, the short call
\*                  and the deep call have a vwap but no close
\*         "flat":  the long put is missing and the iv column holds 0.0
\*   scan  which candidates the strategies' scans find in these rows
\* ------------------------------------------------------------------------
BasePrice(ticker) == IF ticker = "SPY" THEN 104 ELSE 184

\* days-to-expiration of the expirations that new entries use (15..60)
EntryDtes == {20, 40}

\* those, and what is left of them on the following trading dates
AllDtes ==
    {d \in EntryDtes \cup {x - k * DayGap : x \in EntryDtes, k \in 1..NumDays} : d > 0}

\* the listed contracts of an instrument
Contracts(ticker, spot) ==
    LET B == BasePrice(ticker)
    IN {[role |-> "put_short", type |-> "put", strike |-> B - 7],
        [role |-> "put_long", type |-> "put", strike |-> B - 12],
        [role |-> "call_short", type |-> "call", strike |-> B + 8],
        [role |-> "call_long", type |-> "call", strike |-> B + 13],
        [role |-> "deep_call", type |-> "call", strike |-> 45],
        [role |-> "atm_call", type |-> "call", strike |-> spot]}

\* close price in cents of a contract at a quote level
QuoteOf(ticker, lvl, role) ==
    LET B == BasePrice(ticker)
    IN CASE role = "put_short" ->
              (CASE lvl = "calm" -> 150 [] lvl = "ease" -> 105 [] lvl = "decay" -> 60 [] OTHER -> 50)
         [] role = "put_long" ->
              (CASE lvl = "calm" -> 50 [] lvl = "ease" -> 35 [] lvl = "decay" -> 10 [] OTHER -> 10)
         [] role = "call_short" ->
              (CASE lvl = "calm" -> 150 [] lvl = "ease" -> 105 [] lvl = "decay" -> 60 [] OTHER -> 900)
         [] role = "call_long" ->
              (CASE lvl = "calm" -> 50 [] lvl = "ease" -> 35 [] lvl = "decay" -> 10 [] OTHER -> 200)
         [] role = "deep_call" ->
              (CASE lvl = "calm" -> (B - 45) * 100
                 [] lvl = "ease" -> (B - 45) * 90
                 [] lvl = "decay" -> (B - 45) * 50
                 [] OTHER -> (B - 45) * 300)
         [] OTHER -> 400

DeltaOf(c, spot) ==
    IF c.type = "put" THEN (IF c.strike < spot THEN -20 ELSE -80)
    ELSE IF c.role = "atm_call" THEN 50
    ELSE IF c.role = "deep_call" THEN 99
    ELSE IF c.strike < spot THEN 80 ELSE 20

\* the rows of the file of `ticker` whose date is the current date
ChainRows(ticker, ms) ==
    IF ms.spot = 0 THEN {}
    ELSE LET dtes == IF ms.gap = "noexp" THEN EntryDtes ELSE AllDtes
             listed == {c \in Contracts(ticker, ms.spot) :
                           ~(ms.gap \in {"noleg", "flat"} /\ c.role = "put_long")}
             noClose(c) == ms.gap = "nan" /\ c.role \in {"call_short", "call_long", "deep_call"}
             noVwap(c) == ms.gap = "nan" /\ c.role = "call_long"
         IN {[type |-> c.type, strike |-> c.strike, dte |-> d,
              close |-> IF noClose(c) THEN None ELSE QuoteOf(ticker, ms.lvl, c.role),
              vwap |-> IF noVwap(c) THEN None ELSE QuoteOf(ticker, ms.lvl, c.role),
              delta |-> DeltaOf(c, ms.spot),
              iv |-> IF ms.gap = "flat" THEN 0 ELSE 25] : c \in listed, d \in dtes}

\* ------------------------------------------------------------------------
\* What the strategies' scans return on a date (StrategyBase.scan), as rows
\* already ranked by the strategy.  Iron Condor rows carry total_credit and
\* max_risk = (spread_width - total_credit) * 100 (iron_condor.py:234-238);
\* Covered Call rows carry the premium of the call.
\* ------------------------------------------------------------------------
spread_width == 5

IronCondorRow(ticker, credit, dte) ==
    LET B == BasePrice(ticker)
    IN [dte |-> dte,
        put_short_strike |-> B - 7, put_long_strike |-> B - 12,
        call_short_strike |-> B + 8, call_long_strike |-> B + 13,
        put_short_price |-> credit \div 2 + 50, put_long_price |-> 50,
        call_short_price |-> credit - credit \div 2 + 50, call_long_price |-> 50,
        total_credit |-> credit,
        max_risk |-> spread_width * 100 - credit]

CoveredCallRow(ticker, spot, dte) ==
    [dte |-> dte, strike |-> 45, call_price |-> (BasePrice(ticker) - 45) * 100,
     premium |-> (BasePrice(ticker) - 45) * 100, underlying_price |-> spot]

ScanResult(ticker, ms, strategy_name) ==
    IF strategy_name = "iron_condor"
    THEN CASE ms.scan = "ic1" -> <<IronCondorRow(ticker, 200, 40)>>
           [] ms.scan = "thin" -> <<IronCondorRow(ticker, 100, 20)>>
           [] ms.scan = "ic4" -> <<IronCondorRow(ticker, 230, 20),
                                   IronCondorRow(ticker, 220, 20),
                                   IronCondorRow(ticker, 210, 20),
                                   IronCondorRow(ticker, 200, 40)>>
           [] OTHER -> <<>>
    ELSE CASE ms.scan = "cc" -> <<CoveredCallRow(ticker, ms.spot, 40)>>
           [] OTHER -> <<>>

\* ------------------------------------------------------------------------
\* risk_manager.py: the DTE-tiered thresholds construct_position computes
\* ------------------------------------------------------------------------
SHORT_DTE_THRESHOLD == 21
MEDIUM_DTE_THRESHOLD == 35

calculate_iron_condor_risk(dte, max_credit) ==
    LET profit_target_pct == IF dte <= SHORT_DTE_THRESHOLD THEN 25
                             ELSE IF dte <= MEDIUM_DTE_THRESHOLD THEN 40 ELSE 50
        stop_loss_pct == IF dte <= SHORT_DTE_THRESHOLD THEN 100
                         ELSE IF dte <= MEDIUM_DTE_THRESHOLD THEN 150 ELSE 200
    IN [profit_target |-> (max_credit * profit_target_pct) \div 100,
        stop_loss |-> (max_credit * stop_loss_pct) \div 100]

calculate_covered_call_risk(dte, premium_received) ==
    LET profit_target_pct == IF dte <= SHORT_DTE_THRESHOLD THEN 30
                             ELSE IF dte <= MEDIUM_DTE_THRESHOLD THEN 40 ELSE 50
    IN [profit_target |-> (premium_received * profit_target_pct) \div 100,
        stop_loss |-> 0]

\* ------------------------------------------------------------------------
\* construct_position of the two strategies.  `today` is the date of the
\* scanned rows: a row's expiration is its date plus its dte.
\* ------------------------------------------------------------------------
Leg(type, strike, position, price) ==
    [type |-> type, strike |-> strike, position |-> position, price |-> price]

IronCondor_construct_position(opportunity, today) ==
    LET risk_params == calculate_iron_condor_risk(opportunity.dte, opportunity.total_credit)
    IN [strategy_name |-> "Iron Condor",
        expiration_date |-> today + opportunity.dte,
        dte_at_entry |-> opportunity.dte,
        legs |-> <<Leg("put", opportunity.put_short_strike, "short", opportunity.put_short_price),
                   Leg("put", opportunity.put_long_strike, "long", opportunity.put_long_price),
                   Leg("call", opportunity.call_short_strike, "short", opportunity.call_short_price),
                   Leg("call", opportunity.call_long_strike, "long", opportunity.call_long_price)>>,
        premium_collected |-> opportunity.total_credit,
        max_risk |-> opportunity.max_risk,
        profit_target |-> risk_params.profit_target,
        stop_loss |-> risk_params.stop_loss]

CoveredCall_construct_position(opportunity, today) ==
    LET risk_params == calculate_covered_call_risk(opportunity.dte, opportunity.premium)
        underlying_value == opportunity.underlying_price * 100
    IN [strategy_name |-> "Covered Call (Income)",
        expiration_date |-> today + opportunity.dte,
        dte_at_entry |-> opportunity.dte,
        legs |-> <<Leg("call", opportunity.strike, "short", opportunity.call_price)>>,
        premium_collected |-> opportunity.premium,
        max_risk |-> underlying_value - opportunity.premium,
        profit_target |-> risk_params.profit_target,
        stop_loss |-> risk_params.stop_loss]

construct_position(strategy_name, opportunity, today) ==
    IF strategy_name = "iron_condor"
    THEN IronCondor_construct_position(opportunity, today)
    ELSE CoveredCall_construct_position(opportunity, today)

\* ------------------------------------------------------------------------
\* OpportunityScorer.calculate_quality_score, in units of 1/10000.
\* The scan rows carry no put_volume / call_volume / put_oi / call_oi
\* attribute, so getattr returns its default of 100 for every leg.
\* ------------------------------------------------------------------------
ScoreComponents(position, iv_rank) ==
    LET risk == Abs(position.max_risk)
        ror_score == (4500 * Min(position.premium_collected, 4 * risk)) \div (4 * risk)
        dte == position.dte_at_entry
        dte_score == IF 42 <= dte /\ dte <= 56 THEN 2000
                     ELSE IF (36 <= dte /\ dte < 42) \/ (56 < dte /\ dte <= 60) THEN 1700
                     ELSE IF 30 <= dte /\ dte < 36 THEN 1200
                     ELSE IF 22 <= dte /\ dte < 30 THEN 800
                     ELSE 400
        leg_count == Len(position.legs)
        total_volume == leg_count * 100
        total_oi == leg_count * 100
        avg_volume == IF leg_count > 0 THEN total_volume \div leg_count ELSE 0
        avg_oi == IF leg_count > 0 THEN total_oi \div leg_count ELSE 0
        volume_normalized == Min(avg_volume * 100, 10000)
        oi_normalized == Min(avg_oi * 50, 10000)
        liquidity_score == (((volume_normalized + oi_normalized) \div 2) * 15) \div 100
        iv_score == iv_rank * 10
        credit_score == Min(position.premium_collected, 500)
        delta_score == 500
    IN <<ror_score, dte_score, liquidity_score, iv_score, credit_score, delta_score>>

calculate_quality_score(position, iv_rank) ==
    SumSeq(ScoreComponents(position, iv_rank))

\* ------------------------------------------------------------------------
\* MarketDataLoader: the underlying-price estimate
\* ------------------------------------------------------------------------
RECURSIVE SortedStrikes(_)
\* the strikes of a set of rows, one per row, ascending
SortedStrikes(rows) ==
    IF rows = {} THEN <<>>
    ELSE LET r == CHOOSE x \in rows : \A y \in rows : x.strike <= y.strike
         IN <<r.strike>> \o SortedStrikes(rows \ {r})

\* pandas median; the mean of the two middle strikes is exact here because
\* strikes of the generated rows that share a delta band are equal or even-spaced
Median(sorted) ==
    LET n == Len(sorted)
    IN IF n % 2 = 1 THEN sorted[(n + 1) \div 2]
       ELSE (sorted[n \div 2] + sorted[n \div 2 + 1]) \div 2

_estimate_underlying_price(options) ==
    IF options = {} THEN None
    ELSE LET calls == {r \in options : r.type = "call"}
             atm_calls == {r \in calls : 45 <= r.delta /\ r.delta <= 55}
         IN IF calls = {} THEN None
            ELSE IF atm_calls # {} THEN Median(SortedStrikes(atm_calls))
            ELSE LET closest == CHOOSE r \in calls :
                                   \A o \in calls :
                                      \/ Abs(r.delta - 50) < Abs(o.delta - 50)
                                      \/ /\ Abs(r.delta - 50) = Abs(o.delta - 50)
                                         /\ r.strike <= o.strike
                                         /\ (r.strike = o.strike => r.dte <= o.dte)
                 IN closest.strike

\* get_underlying_price(ticker, date) on the rows of that ticker and date
get_underlying_price(day_data) ==
    IF day_data = {} THEN None ELSE _estimate_underlying_price(day_data)

\* Python truthiness of an Optional[float]: None and 0.0 are false
Truthy(x) == x # None /\ x # 0

\* ------------------------------------------------------------------------
\* black_scholes.py.  T is in days, r and sigma in percent, the result in
\* cents.  validate_inputs is modelled exactly; the closed form itself
\* (logarithm, square root, normal distribution) has no integer counterpart
\* and is replaced by intrinsic value plus a time value that grows with S,
\* sigma and T and shrinks with the distance of the strike from the spot.
\* A raised ValueError is the value Invalid.
\* ------------------------------------------------------------------------
Invalid == -888888

validate_inputs_ClampedTime(S, K, T, r, sigma) ==
    ~(S <= 0 \/ K <= 0 \/ T < 0 \/ sigma <= 0 \/ r < -100 \/ r > 100)

validate_inputs(S, K, T, r, sigma) ==
    ~(S <= 0 \/ K <= 0 \/ T <= 0 \/ sigma <= 0 \/ r < -100 \/ r > 100)

black_scholes_price(S, K, T, r, sigma, option_type) ==
    IF ~validate_inputs(S, K, T, r, sigma) THEN Invalid
    ELSE IF option_type \notin {"call", "put"} THEN Invalid
    ELSE LET intrinsic == IF option_type = "call" THEN Max(0, S - K) ELSE Max(0, K - S)
             time_value == (S * sigma * T) \div (365 + 40 * Abs(S - K))
         IN intrinsic * 100 + time_value

\* the ValueError of validate_inputs, for the functions that return a
\* structure
ValueError == [error |-> "ValueError"]

\* calculate_d1_d2 and calculate_greeks: ValueError when validate_inputs
\* raises; otherwise the pair / the dictionary, here by the quantities of
\* the integer price above (moneyness and sigma * T for d1 and d2, the sign
\* of d1 for the deltas)
calculate_d1_d2(S, K, T, r, sigma) ==
    IF ~validate_inputs(S, K, T, r, sigma) THEN ValueError
    ELSE [d1 |-> (S - K) + sigma * T, d2 |-> (S - K) - sigma * T]

calculate_greeks(S, K, T, r, sigma) ==
    IF ~validate_inputs(S, K, T, r, sigma) THEN ValueError
    ELSE LET d == calculate_d1_d2(S, K, T, r, sigma)
             delta_call == IF d.d1 > 0 THEN 100 ELSE 0
         IN [call |-> [delta |-> delta_call], put |-> [delta |-> delta_call - 100]]

\* ------------------------------------------------------------------------
\* BacktestEngine: valuation of a position
\* ------------------------------------------------------------------------
BSM_AVAILABLE == TRUE

AvailableOptions_AnyExpiration(rows, position, current_date) == rows

\* rows of the ticker for current_date and the position's expiration
AvailableOptions(rows, position, current_date) ==
    {r \in rows : current_date + r.dte = position.expiration_date}

\* the price of one leg in the available rows, None when the leg has no row
\* or neither close nor vwap
LegPrice(available_options, leg) ==
    LET leg_data == {r \in available_options : r.strike = leg.strike /\ r.type = leg.type}
    IN IF leg_data = {} THEN None
       ELSE LET first == CHOOSE r \in leg_data : TRUE
            IN IF first.close # None THEN first.close ELSE first.vwap

SignedValue(leg, value) == IF leg.position = "short" THEN value ELSE -value

_calculate_position_value_Partial(rows, position, current_date) ==
    LET available_options == AvailableOptions(rows, position, current_date)
        legs == position.legs
        found == {i \in 1..Len(legs) : LegPrice(available_options, legs[i]) # None}
    IN IF found = {} THEN None
       ELSE SumSeq([i \in 1..Len(legs) |->
                      IF i \in found
                      THEN SignedValue(legs[i], LegPrice(available_options, legs[i]))
                      ELSE 0])

_calculate_position_value(rows, position, current_date) ==
    LET available_options == AvailableOptions(rows, position, current_date)
        legs == position.legs
        found == {i \in 1..Len(legs) : LegPrice(available_options, legs[i]) # None}
        total_value == SumSeq([i \in 1..Len(legs) |->
                          IF i \in found
                          THEN SignedValue(legs[i], LegPrice(available_options, legs[i]))
                          ELSE 0])
    IN IF available_options = {} THEN None
       ELSE IF Cardinality(found) = Len(legs) THEN total_value
       ELSE None

RECURSIVE SortedIvs(_)
SortedIvs(rows) ==
    IF rows = {} THEN <<>>
    ELSE LET r == CHOOSE x \in rows : \A y \in rows : x.iv <= y.iv
         IN <<r.iv>> \o SortedIvs(rows \ {r})

_estimate_value_with_model(rows, position, current_date, underlying_price) ==
    LET available_options == AvailableOptions(rows, position, current_date)
        iv_values == {r \in available_options : r.iv # None}
        estimated_iv == IF iv_values # {} THEN Median(SortedIvs(iv_values)) ELSE 25
        days_to_expiry == position.expiration_date - current_date
        risk_free_rate == 5
        legs == position.legs
        theoretical(i) == black_scholes_price(underlying_price, legs[i].strike, days_to_expiry,
                                              risk_free_rate, estimated_iv, legs[i].type)
    IN IF ~BSM_AVAILABLE THEN None
       ELSE IF days_to_expiry <= 0 THEN 0
       ELSE IF \E i \in 1..Len(legs) : theoretical(i) = Invalid THEN None
       ELSE SumSeq([i \in 1..Len(legs) |-> SignedValue(legs[i], theoretical(i))])

_calculate_expiry_pnl_LongAdded(position, final_price) ==
    LET legs == position.legs
        intrinsic(i) == IF legs[i].type = "call"
                        THEN Max(0, final_price - legs[i].strike)
                        ELSE Max(0, legs[i].strike - final_price)
    IN position.premium_collected - SumSeq([i \in 1..Len(legs) |-> intrinsic(i) * 100])

_calculate_expiry_pnl(position, final_price) ==
    LET legs == position.legs
        intrinsic(i) == IF legs[i].type = "call"
                        THEN Max(0, final_price - legs[i].strike)
                        ELSE Max(0, legs[i].strike - final_price)
        total_intrinsic_value ==
            SumSeq([i \in 1..Len(legs) |-> SignedValue(legs[i], intrinsic(i) * 100)])
    IN position.premium_collected - total_intrinsic_value

\* ------------------------------------------------------------------------
\* BacktestEngine: state
\* ------------------------------------------------------------------------
VARIABLES
    config,                 \* BacktestConfig: initial_capital, max_positions, max_positions_per_ticker
    pc,                     \* where run_multi_ticker_backtest is: "manage", "find", "record", "close", "done"
    day,                    \* index i of current_date in all_trading_dates (0 before the loop)
    market,                 \* the chain files' content at current_date, per ticker
    capital,                \* self.capital
    positions,              \* self.positions
    closed_positions,       \* self.closed_positions
    equity_curve,           \* self.equity_curve
    valorization_attempts,  \* self.valorization_attempts
    valorization_failures,  \* self.valorization_failures
    bsm_fallback_used,      \* self.bsm_fallback_used
    reserved,               \* history: reserved[id] = times max_risk of position id was deducted from capital
    released,               \* history: released[id] = times max_risk of position id was added back
    selection,              \* history: what _find_multi_ticker_opportunities did with each scan row today
    _config_cache,          \* AdaptiveConfigManager._config_cache of the one manager instance
    lookups,                \* history: the adaptive-parameter lookups made and what each returned
    probe                   \* the arguments and the result of a function called on its own

vars == <<config, pc, day, market, capital, positions, closed_positions, equity_curve,
          valorization_attempts, valorization_failures, bsm_fallback_used,
          reserved, released, selection, _config_cache, lookups, probe>>

\* what the day loop of the engine neither reads nor writes
aside == <<_config_cache, lookups, probe>>

\* AdaptiveConfigManager.__init__: the cache after _load_all_configs
_load_all_configs == [ticker \in DOMAIN TICKER_CLASSIFICATIONS |-> _build_config(ticker)]

NoProbe == [call |-> "none"]

current_date == DateOf(day)

\* the content of the files on one date
NoRows == [spot |-> 0, lvl |-> "calm", gap |-> "full", scan |-> "none"]

MarketState(ticker, up, lvl, gap, scan) ==
    [spot |-> BasePrice(ticker) + up, lvl |-> lvl, gap |-> gap, scan |-> scan]

DayMarket(spy, gld) == [t \in Tickers |-> IF t = "SPY" THEN spy ELSE gld]

\* the contents a consolidated trading date can have; on such a date some
\* ticker has rows
DayMarkets ==
    {DayMarket(MarketState("SPY", 0, "calm", "full", "ic1"), NoRows),
     DayMarket(MarketState("SPY", 0, "calm", "nan", "none"), MarketState("GLD", 0, "calm", "full", "ic1")),
     DayMarket(MarketState("SPY", 0, "decay", "full", "cc"), MarketState("GLD", 0, "decay", "full", "cc")),
     DayMarket(MarketState("SPY", 0, "ease", "full", "none"), MarketState("GLD", 20, "calm", "noexp", "none")),
     DayMarket(MarketState("SPY", 0, "spike", "full", "ic4"), NoRows),
     DayMarket(MarketState("SPY", 20, "spike", "noleg", "thin"), MarketState("GLD", 0, "spike", "full", "ic4")),
     DayMarket(NoRows, MarketState("GLD", 0, "ease", "full", "ic1")),
     DayMarket(MarketState("SPY", 0, "calm", "flat", "none"), MarketState("GLD", 0, "calm", "noexp", "none"))}

\* before the first date is read
Unread == [t \in Tickers |-> NoRows]

Rows(ticker) == ChainRows(ticker, market[ticker])

TerminalStatuses ==
    {"closed_profit", "closed_loss", "closed_end", "expired_profitable", "expired_loss"}

Init ==
    /\ _config_cache = _load_all_configs
    /\ lookups = <<>>
    /\ probe = NoProbe
    /\ config \in Configs
    /\ pc = "manage"
    /\ day = 0
    /\ market = Unread
    /\ capital = config.initial_capital
    /\ positions = <<>>
    /\ closed_positions = <<>>
    /\ equity_curve = <<>>
    /\ valorization_attempts = 0
    /\ valorization_failures = 0
    /\ bsm_fallback_used = 0
    /\ reserved = <<>>
    /\ released = <<>>
    /\ selection = <<>>

\* ------------------------------------------------------------------------
\* _manage_all_positions
\* ------------------------------------------------------------------------
ProfitTargetHit_Strict(current_pnl, position) == current_pnl > position.profit_target

ProfitTargetHit(current_pnl, position) == current_pnl >= position.profit_target

StopLossHit_Never(current_pnl, position) == FALSE

StopLossHit(current_pnl, position) == current_pnl <= -position.stop_loss

Exit(position, status, pnl, date, exit_value) ==
    [position EXCEPT !.status = status, !.pnl = pnl, !.exit_date = date,
                     !.exit_value = exit_value, !.days_held = date - position.entry_date]

ValuationCounts_FailuresOnly(market_value, model_value) ==
    [attempts |-> IF market_value = None THEN 1 ELSE 0,
     failures |-> IF market_value = None THEN 1 ELSE 0,
     bsm |-> IF market_value = None /\ model_value # None THEN 1 ELSE 0]

\* the increments of valorization_attempts, valorization_failures and
\* bsm_fallback_used for one position that is valued
ValuationCounts(market_value, model_value) ==
    [attempts |-> 1,
     failures |-> IF market_value = None THEN 1 ELSE 0,
     bsm |-> IF market_value = None /\ model_value # None THEN 1 ELSE 0]

\* the body of the loop over self.positions for one position: the position
\* afterwards, whether it was put in positions_to_close, and the increments
\* of the three counters
ManageOne(position, rows, date) ==
    LET underlying_price == get_underlying_price(rows)
        keep == [pos |-> position, close |-> FALSE, attempts |-> 0, failures |-> 0, bsm |-> 0]
    IN IF date >= position.expiration_date
       THEN IF Truthy(underlying_price)
            THEN LET pnl == _calculate_expiry_pnl(position, underlying_price)
                 IN [keep EXCEPT !.close = TRUE,
                                 !.pos = Exit(position,
                                              IF pnl > 0 THEN "expired_profitable" ELSE "expired_loss",
                                              pnl, date, position.exit_value)]
            ELSE keep
       ELSE IF ~Truthy(underlying_price) THEN keep
       ELSE LET market_value == _calculate_position_value(rows, position, date)
                model_value == _estimate_value_with_model(rows, position, date, underlying_price)
                current_value == IF market_value # None THEN market_value ELSE model_value
                counts == ValuationCounts(market_value, model_value)
                counted == [keep EXCEPT !.attempts = counts.attempts,
                                        !.failures = counts.failures,
                                        !.bsm = counts.bsm]
                current_pnl == position.premium_collected - current_value
            IN IF current_value = None THEN counted
               ELSE IF ProfitTargetHit(current_pnl, position)
               THEN [counted EXCEPT !.close = TRUE,
                                    !.pos = Exit(position, "closed_profit", current_pnl, date, current_value)]
               ELSE IF StopLossHit(current_pnl, position)
               THEN [counted EXCEPT !.close = TRUE,
                                    !.pos = Exit(position, "closed_loss", current_pnl, date, current_value)]
               ELSE counted

\* self.positions after `for position in positions_to_close: self.positions.remove(position)`.
\* list.remove takes out the first element equal to its argument; an element
\* put in positions_to_close had its exit_date set to today, so an equal
\* element is itself in positions_to_close and the result is the same list.
RemoveClosed_NoRemove(open_positions, outcomes) == open_positions

RemoveClosed(open_positions, outcomes) ==
    SelectSeqIdx(open_positions, {i \in 1..Len(open_positions) : ~outcomes[i].close})

\* the positions appended to self.closed_positions, in order
MovedToClosed(outcomes) ==
    LET closing == SelectSeqIdx(outcomes, {i \in 1..Len(outcomes) : outcomes[i].close})
    IN [i \in 1..Len(closing) |-> closing[i].pos]

ReleasedCapital_WithPnl(moved) ==
    SumSeq([i \in 1..Len(moved) |-> Abs(moved[i].max_risk) + moved[i].pnl])

ReleasedCapital(moved) == SumSeq([i \in 1..Len(moved) |-> Abs(moved[i].max_risk)])

\* released[id] + 1 for every position of `moved`
NoteReleased(counts, moved) ==
    [id \in 1..Len(counts) |->
        counts[id] + Cardinality({i \in 1..Len(moved) : moved[i].id = id})]

AfterManage_SkipFind(open_positions, cfg) == "record"

\* the step after management: `if len(self.positions) < max_positions`
AfterManage(open_positions, cfg) ==
    IF Len(open_positions) < cfg.max_positions THEN "find" ELSE "record"

ManageAllPositions ==
    /\ pc = "manage"
    /\ \E m \in DayMarkets :
        LET date == DateOf(day + 1)
            outcomes == [i \in 1..Len(positions) |->
                            ManageOne(positions[i], ChainRows(positions[i].ticker, m[positions[i].ticker]), date)]
            moved == MovedToClosed(outcomes)
            remaining == RemoveClosed(positions, outcomes)
        IN /\ day' = day + 1
           /\ market' = m
           /\ positions' = remaining
           /\ closed_positions' = closed_positions \o moved
           /\ capital' = capital + ReleasedCapital(moved)
           /\ released' = NoteReleased(released, moved)
           /\ valorization_attempts' =
                  valorization_attempts + SumSeq([i \in 1..Len(outcomes) |-> outcomes[i].attempts])
           /\ valorization_failures' =
                  valorization_failures + SumSeq([i \in 1..Len(outcomes) |-> outcomes[i].failures])
           /\ bsm_fallback_used' =
                  bsm_fallback_used + SumSeq([i \in 1..Len(outcomes) |-> outcomes[i].bsm])
           /\ pc' = AfterManage(remaining, config)
    /\ UNCHANGED aside
    /\ UNCHANGED <<config, equity_curve, reserved, selection>>

\* ------------------------------------------------------------------------
\* _find_multi_ticker_opportunities
\* ------------------------------------------------------------------------
required_capital == 5000
TopRows == 3
iv_rank == 70

RECURSIVE Flatten(_)
Flatten(seqs) == IF seqs = <<>> THEN <<>> ELSE Head(seqs) \o Flatten(Tail(seqs))

TickerPositions(open_positions, ticker) ==
    Cardinality({i \in 1..Len(open_positions) : open_positions[i].ticker = ticker})

\* get_options_for_date with the default DTE window
get_options_for_date(rows) == {r \in rows : r.dte >= 15 /\ r.dte <= 60}

\* the candidate built from row idx of a scan: the strategy's position with
\* ticker, entry date and the adaptive thresholds set by the engine, scored
Candidate(ticker, strategy_name, idx, opp_data, date) ==
    LET built == construct_position(strategy_name, opp_data, date)
        position == [id |-> 0,
                     ticker |-> ticker,
                     strategy_name |-> built.strategy_name,
                     entry_date |-> date,
                     expiration_date |-> built.expiration_date,
                     dte_at_entry |-> built.dte_at_entry,
                     legs |-> built.legs,
                     premium_collected |-> built.premium_collected,
                     max_risk |-> built.max_risk,
                     profit_target |-> get_profit_target(ticker, built.premium_collected),
                     stop_loss |-> get_stop_loss(ticker, built.max_risk),
                     status |-> "open",
                     pnl |-> None,
                     exit_date |-> None,
                     exit_value |-> None,
                     days_held |-> None]
    IN [ticker |-> ticker,
        strategy_name |-> strategy_name,
        idx |-> idx,
        position |-> position,
        quality_score |-> calculate_quality_score(position, iv_rank)]

\* whether the loop over tickers reaches the strategies for this ticker
TickerScanned(ticker, open_positions, cfg, rows) ==
    /\ TickerPositions(open_positions, ticker) < cfg.max_positions_per_ticker
    /\ Truthy(get_underlying_price(rows))
    /\ get_options_for_date(rows) # {}

\* every row of every scan that is run for the ticker, as candidates
ScannedRows(ticker, ms, open_positions, cash, cfg, date) ==
    IF ~TickerScanned(ticker, open_positions, cfg, ChainRows(ticker, ms)) THEN <<>>
    ELSE Flatten([k \in 1..Len(strategies) |->
            IF cash < required_capital THEN <<>>
            ELSE LET opportunities_df == ScanResult(ticker, ms, strategies[k])
                 IN [idx \in 1..Len(opportunities_df) |->
                        Candidate(ticker, strategies[k], idx, opportunities_df[idx], date)]])

AllScannedRows(mkt, open_positions, cash, cfg, date) ==
    Flatten([k \in 1..Len(valid_tickers) |->
                ScannedRows(valid_tickers[k], mkt[valid_tickers[k]], open_positions, cash, cfg, date)])

\* all_opportunities: the first rows of each scan
Pooled(scanned) == SelectSeq(scanned, LAMBDA c : c.idx <= TopRows)

NotPooled(scanned) == SelectSeq(scanned, LAMBDA c : c.idx > TopRows)

SortByScore_Unsorted(pool) == pool

RECURSIVE SortByScore_Ascending(_)
SortByScore_Ascending(pool) ==
    IF pool = <<>> THEN <<>>
    ELSE LET n == Len(pool)
             front == SortByScore_Ascending(SubSeq(pool, 1, n - 1))
             last == pool[n]
             ahead == {i \in 1..Len(front) : front[i].quality_score <= last.quality_score}
             k == Cardinality(ahead)
         IN SubSeq(front, 1, k) \o <<last>> \o SubSeq(front, k + 1, Len(front))

RECURSIVE SortByScore(_)
\* list.sort(key=quality_score, reverse=True): descending and stable
SortByScore(pool) ==
    IF pool = <<>> THEN <<>>
    ELSE LET n == Len(pool)
             front == SortByScore(SubSeq(pool, 1, n - 1))
             last == pool[n]
             ahead == {i \in 1..Len(front) : front[i].quality_score >= last.quality_score}
             k == Cardinality(ahead)
         IN SubSeq(front, 1, k) \o <<last>> \o SubSeq(front, k + 1, Len(front))

GlobalCapReached_Never(open_positions, cfg) == FALSE

GlobalCapReached(open_positions, cfg) == Len(open_positions) >= cfg.max_positions

TickerCapReached_Never(open_positions, ticker, cfg) == FALSE

TickerCapReached(open_positions, ticker, cfg) ==
    TickerPositions(open_positions, ticker) >= cfg.max_positions_per_ticker

InsufficientCapital_Never(cash, position) == FALSE

InsufficientCapital(cash, position) == cash < Abs(position.max_risk)

\* history record: what was done with a candidate, and the cash and the
\* position counts at that moment
Decision(c, decision, cash, open_positions, id) ==
    [ticker |-> c.ticker, strategy_name |-> c.strategy_name, idx |-> c.idx,
     quality_score |-> c.quality_score, max_risk |-> c.position.max_risk,
     decision |-> decision, cash |-> cash,
     open |-> Len(open_positions),
     ticker_open |-> TickerPositions(open_positions, c.ticker),
     id |-> id]

RECURSIVE Select(_, _, _)
\* the selection loop over the sorted candidates; acc is the engine state so far
Select(candidates, cfg, acc) ==
    IF candidates = <<>> THEN acc
    ELSE LET candidate == Head(candidates)
             rest == Tail(candidates)
         IN IF GlobalCapReached(acc.positions, cfg)
            THEN \* break: the remaining candidates are not looked at
                 [acc EXCEPT !.log = acc.log \o
                     [i \in 1..Len(candidates) |-> Decision(candidates[i], "global_cap", acc.capital, acc.positions, 0)]]
            ELSE IF TickerCapReached(acc.positions, candidate.ticker, cfg)
            THEN Select(rest, cfg,
                        [acc EXCEPT !.log = Append(acc.log, Decision(candidate, "ticker_cap", acc.capital, acc.positions, 0))])
            ELSE IF InsufficientCapital(acc.capital, candidate.position)
            THEN Select(rest, cfg,
                        [acc EXCEPT !.log = Append(acc.log, Decision(candidate, "cash", acc.capital, acc.positions, 0))])
            ELSE LET id == Len(acc.reserved) + 1
                 IN Select(rest, cfg,
                        [positions |-> Append(acc.positions, [candidate.position EXCEPT !.id = id]),
                         capital |-> acc.capital - Abs(candidate.position.max_risk),
                         reserved |-> Append(acc.reserved, 1),
                         released |-> Append(acc.released, 0),
                         log |-> Append(acc.log, Decision(candidate, "admitted", acc.capital, acc.positions, id))])

FindMultiTickerOpportunities ==
    /\ pc = "find"
    /\ LET scanned == AllScannedRows(market, positions, capital, config, current_date)
           all_opportunities == SortByScore(Pooled(scanned))
           start == [positions |-> positions, capital |-> capital,
                     reserved |-> reserved, released |-> released,
                     log |-> [i \in 1..Len(NotPooled(scanned)) |->
                                 Decision(NotPooled(scanned)[i], "not_pooled", capital, positions, 0)]]
           result == Select(all_opportunities, config, start)
       IN /\ positions' = result.positions
          /\ capital' = result.capital
          /\ reserved' = result.reserved
          /\ released' = result.released
          /\ selection' = result.log
    /\ pc' = "record"
    /\ UNCHANGED aside
    /\ UNCHANGED <<config, day, market, closed_positions, equity_curve,
                   valorization_attempts, valorization_failures, bsm_fallback_used>>

\* ------------------------------------------------------------------------
\* _record_multi_ticker_equity
\* ------------------------------------------------------------------------
\* premium_collected - current_value of an open position when it can be
\* marked today, else 0 (`if underlying_price:` and `if current_value:`)
OpenPositionMark(position, rows, date) ==
    LET current_value == _calculate_position_value(rows, position, date)
    IN IF Truthy(get_underlying_price(rows)) /\ Truthy(current_value)
       THEN position.premium_collected - current_value
       ELSE 0

RecordMultiTickerEquity ==
    /\ pc = "record"
    /\ LET open_positions_value ==
               SumSeq([i \in 1..Len(positions) |->
                          OpenPositionMark(positions[i], Rows(positions[i].ticker), current_date)])
           reserved_capital == SumSeq([i \in 1..Len(positions) |-> Abs(positions[i].max_risk)])
           total_equity == capital + open_positions_value + reserved_capital
       IN equity_curve' = Append(equity_curve,
                                 [date |-> current_date,
                                  equity |-> total_equity,
                                  cash |-> capital,
                                  open_positions |-> Len(positions),
                                  closed_positions |-> Len(closed_positions)])
    /\ pc' = IF day < NumDays THEN "manage" ELSE "close"
    \* the rows of a date are not read again once its equity is recorded,
    \* except those of the last date, which the final close-out reads
    /\ market' = IF day < NumDays THEN Unread ELSE market
    /\ selection' = <<>>
    /\ UNCHANGED aside
    /\ UNCHANGED <<config, day, capital, positions, closed_positions,
                   valorization_attempts, valorization_failures, bsm_fallback_used,
                   reserved, released>>

\* ------------------------------------------------------------------------
\* _close_all_remaining_positions(all_trading_dates[-1])
\* ------------------------------------------------------------------------
\* whether the loop appends the position to closed_positions
ClosedAtEnd(position, rows) == Truthy(get_underlying_price(rows))

CloseOne(position, rows, final_date) ==
    Exit(position, "closed_end",
         _calculate_expiry_pnl(position, get_underlying_price(rows)),
         final_date, position.exit_value)

CloseAllRemainingPositions ==
    /\ pc = "close"
    /\ LET final_date == DateOf(NumDays)
           priced == {i \in 1..Len(positions) : ClosedAtEnd(positions[i], Rows(positions[i].ticker))}
           kept == SelectSeqIdx(positions, priced)
           moved == [i \in 1..Len(kept) |-> CloseOne(kept[i], Rows(kept[i].ticker), final_date)]
       IN /\ closed_positions' = closed_positions \o moved
          /\ capital' = capital + ReleasedCapital(moved)
          /\ released' = NoteReleased(released, moved)
    /\ positions' = <<>>
    /\ pc' = "done"
    /\ UNCHANGED aside
    /\ UNCHANGED <<config, day, market, equity_curve, valorization_attempts,
                   valorization_failures, bsm_fallback_used, reserved, selection>>

\* ------------------------------------------------------------------------
\* run_multi_ticker_backtest
\* ------------------------------------------------------------------------
Next ==
    \/ ManageAllPositions
    \/ FindMultiTickerOpportunities
    \/ RecordMultiTickerEquity
    \/ CloseAllRemainingPositions

Spec == Init /\ [][Next]_vars

\* ------------------------------------------------------------------------
\* The adaptive-parameter manager used on its own: any sequence of
\* get_config / get_dte_range / get_profit_target / get_stop_loss calls on
\* the one instance get_adaptive_config_manager returns.
\* ------------------------------------------------------------------------
MaxLookups == 3

\* two classified tickers with an override, one without, and unknown ones
LookupTickers == {"SPY", "TSLA", "GLD", "XYZ"}

Served_Drift(cache, ticker) ==
    IF ticker \notin DOMAIN cache THEN _build_config(ticker)
    ELSE [cache[ticker] EXCEPT !.dte_max = @ + 1]

\* what get_config returns
Served(cache, ticker) ==
    IF ticker \notin DOMAIN cache THEN _build_config(ticker) ELSE cache[ticker]

\* the cache after get_config
Stored(cache, ticker) ==
    IF ticker \notin DOMAIN cache THEN cache @@ (ticker :> _build_config(ticker)) ELSE cache

\* how the entry was obtained
Origin(cache, ticker) ==
    IF ticker \notin DOMAIN cache THEN "built"
    ELSE IF ticker \in DOMAIN TICKER_CLASSIFICATIONS THEN "preloaded" ELSE "cached"

Lookup(call, ticker, result) ==
    LET c == Served(_config_cache, ticker)
    IN [call |-> call, ticker |-> ticker, origin |-> Origin(_config_cache, ticker),
        params |-> <<c.profit_target_pct, c.stop_loss_pct, c.dte_min, c.dte_max>>,
        known |-> c.known, result |-> result]

Call(call, ticker, result) ==
    /\ Len(lookups) < MaxLookups
    /\ lookups' = Append(lookups, Lookup(call, ticker, result))
    /\ _config_cache' = Stored(_config_cache, ticker)
    /\ UNCHANGED <<config, pc, day, market, capital, positions, closed_positions,
                   equity_curve, valorization_attempts, valorization_failures,
                   bsm_fallback_used, reserved, released, selection, probe>>

GetConfig ==
    \E ticker \in LookupTickers :
        Call("get_config", ticker, <<>>)

GetDteRange ==
    \E ticker \in LookupTickers :
        LET c == Served(_config_cache, ticker)
        IN Call("get_dte_range", ticker, <<c.dte_min, c.dte_max>>)

GetProfitTarget ==
    \E ticker \in LookupTickers : \E premium_collected \in {200} :
        LET c == Served(_config_cache, ticker)
        IN Call("get_profit_target", ticker, <<(premium_collected * c.profit_target_pct) \div 100>>)

GetStopLoss ==
    \E ticker \in LookupTickers : \E max_risk \in {-300} :
        LET c == Served(_config_cache, ticker)
        IN Call("get_stop_loss", ticker, <<(Abs(max_risk) * c.stop_loss_pct) \div 100>>)

AdaptiveInit == Init /\ config.max_positions = 2

AdaptiveNext == GetConfig \/ GetDteRange \/ GetProfitTarget \/ GetStopLoss

AdaptiveSpec == AdaptiveInit /\ [][AdaptiveNext]_vars

\* ------------------------------------------------------------------------
\* _calculate_expiry_pnl called on its own, on positions of one to MaxLegs
\* legs whose premium_collected is the signed sum of the legs' entry prices
\* ------------------------------------------------------------------------
MaxLegs == 4

\* entry price in cents of a leg
EntryPrice(type, strike, position) ==
    (IF position = "short" THEN 150 ELSE 50) + (IF type = "call" THEN 105 - strike ELSE strike - 95)

LegChoices ==
    {Leg(type, strike, position, EntryPrice(type, strike, position)) :
        type \in {"call", "put"}, strike \in {95, 105}, position \in {"short", "long"}}

LegSets == UNION {[1..n -> LegChoices] : n \in 1..MaxLegs}

FinalPrices == {90, 100, 110}

ProbePosition(legs) ==
    [legs |-> legs,
     premium_collected |-> SumSeq([i \in 1..Len(legs) |-> SignedValue(legs[i], legs[i].price)])]

ExpiryInit ==
    /\ _config_cache = _load_all_configs
    /\ lookups = <<>>
    /\ config \in {c \in Configs : c.max_positions = 2}
    /\ pc = "manage" /\ day = 0 /\ market = Unread
    /\ capital = config.initial_capital
    /\ positions = <<>> /\ closed_positions = <<>> /\ equity_curve = <<>>
    /\ valorization_attempts = 0 /\ valorization_failures = 0 /\ bsm_fallback_used = 0
    /\ reserved = <<>> /\ released = <<>> /\ selection = <<>>
    /\ \E legs \in LegSets : \E final_price \in FinalPrices :
          probe = [call |-> "_calculate_expiry_pnl", position |-> ProbePosition(legs),
                   final_price |-> final_price, pnl |-> None]

CalculateExpiryPnl ==
    /\ probe.call = "_calculate_expiry_pnl"
    /\ probe.pnl = None
    /\ probe' = [probe EXCEPT !.pnl = _calculate_expiry_pnl(probe.position, probe.final_price)]
    /\ UNCHANGED <<config, pc, day, market, capital, positions, closed_positions,
                   equity_curve, valorization_attempts, valorization_failures,
                   bsm_fallback_used, reserved, released, selection, _config_cache, lookups>>

ExpirySpec == ExpiryInit /\ [][CalculateExpiryPnl]_vars

\* the engine at construction, with nothing looked up yet
Idle ==
    /\ _config_cache = _load_all_configs
    /\ lookups = <<>>
    /\ config \in {c \in Configs : c.max_positions = 2}
    /\ pc = "manage" /\ day = 0 /\ market = Unread
    /\ capital = config.initial_capital
    /\ positions = <<>> /\ closed_positions = <<>> /\ equity_curve = <<>>
    /\ valorization_attempts = 0 /\ valorization_failures = 0 /\ bsm_fallback_used = 0
    /\ reserved = <<>> /\ released = <<>> /\ selection = <<>>

\* a call that changes nothing but the probe
OnlyProbe ==
    UNCHANGED <<config, pc, day, market, capital, positions, closed_positions,
                equity_curve, valorization_attempts, valorization_failures,
                bsm_fallback_used, reserved, released, selection, _config_cache, lookups>>

\* ------------------------------------------------------------------------
\* OpportunityScorer.calculate_quality_score called on its own.  It is a
\* static method: position and market_data are whatever the caller passes.
\* ------------------------------------------------------------------------
ScorePremiums == {-100, 0, 200, 2000}
ScoreRisks == {300, -300, 4500}
ScoreDtes == {10, 25, 33, 40, 50, 58, 70}
ScoreIvRanks == {-10, 0, 70, 100, 150}
ScoreLegCounts == {1, 4}

ScoreInit ==
    /\ Idle
    /\ \E premium_collected \in ScorePremiums, max_risk \in ScoreRisks, dte \in ScoreDtes,
          rank \in ScoreIvRanks, n \in ScoreLegCounts :
          probe = [call |-> "calculate_quality_score",
                   position |-> [premium_collected |-> premium_collected, max_risk |-> max_risk,
                                 dte_at_entry |-> dte,
                                 legs |-> [i \in 1..n |-> Leg("call", 100, "short", 100)]],
                   iv_rank |-> rank, components |-> <<>>, quality_score |-> None]

CalculateQualityScore ==
    /\ probe.call = "calculate_quality_score"
    /\ probe.quality_score = None
    /\ probe' = [probe EXCEPT !.components = ScoreComponents(probe.position, probe.iv_rank),
                              !.quality_score = calculate_quality_score(probe.position, probe.iv_rank)]
    /\ OnlyProbe

ScoreSpec == ScoreInit /\ [][CalculateQualityScore]_vars

\* ------------------------------------------------------------------------
\* filters.py and IronCondor.scan, on the rows of one date in file order.
\* A row is [type, strike, dte, close, delta, volume, oi]; its expiration
\* is the date plus dte.  Deltas are in percent and already absolute,
\* prices in cents, the bid-ask spread in tenths of a percent.
\* ------------------------------------------------------------------------
dte_range == <<15, 60>>
short_delta_range == <<16, 25>>
long_delta_range == <<5, 10>>
min_iv_rank == 60
min_volume == 10
min_open_interest == 50
max_bid_ask_spread_pct == 100
default_bid_ask_spread_pct == 50
min_total_credit == 60

RECURSIVE SortInts(_)
SortInts(s) ==
    IF s = <<>> THEN <<>>
    ELSE LET k == CHOOSE i \in 1..Len(s) : \A j \in 1..Len(s) : s[i] <= s[j]
         IN <<s[k]>> \o SortInts(SubSeq(s, 1, k - 1) \o SubSeq(s, k + 1, Len(s)))

\* LiquidityFilter.adjust_for_dte
LiquidityFilter_adjust_for_dte(dte) ==
    IF dte <= 21
    THEN [min_volume |-> (min_volume * 15) \div 10, min_oi |-> (min_open_interest * 15) \div 10,
          max_spread |-> (max_bid_ask_spread_pct * 70) \div 100]
    ELSE IF dte <= 35
    THEN [min_volume |-> (min_volume * 12) \div 10, min_oi |-> (min_open_interest * 12) \div 10,
          max_spread |-> (max_bid_ask_spread_pct * 85) \div 100]
    ELSE [min_volume |-> min_volume, min_oi |-> min_open_interest,
          max_spread |-> max_bid_ask_spread_pct]

\* LiquidityFilter.filter on one row; the chain has no bid / ask columns
LiquidityFilter_filter(liquidity, row) ==
    /\ row.volume >= liquidity.min_volume
    /\ row.oi >= liquidity.min_oi
    /\ default_bid_ask_spread_pct <= liquidity.max_spread

\* VolatilityFilter.adjust_for_dte: the minimum IV rank
VolatilityFilter_adjust_for_dte(dte) ==
    IF dte <= 21 THEN Max(min_iv_rank + 10, 70) ELSE min_iv_rank

VolatilityFilter_filter(min_rank, rank) == rank >= min_rank

DTEFilter_filter(row) == row.dte >= dte_range[1] /\ row.dte <= dte_range[2]

DeltaFilter_filter(delta_range, option_type, row) ==
    /\ row.type = option_type
    /\ Abs(row.delta) >= delta_range[1]
    /\ Abs(row.delta) <= delta_range[2]

\* the filters select() applies to the rows of df, adjusted to its median DTE
AdjustedFilters(df) ==
    LET avg_dte == Median(SortInts([i \in 1..Len(df) |-> df[i].dte]))
    IN [liquidity |-> LiquidityFilter_adjust_for_dte(avg_dte),
        volatility |-> VolatilityFilter_adjust_for_dte(avg_dte)]

\* whether a row of df is in the result of OptionSelector.select(df)
Selected(df, delta_range, option_type, rank, row) ==
    /\ DTEFilter_filter(row)
    /\ LiquidityFilter_filter(AdjustedFilters(df).liquidity, row)
    /\ VolatilityFilter_filter(AdjustedFilters(df).volatility, rank)
    /\ DeltaFilter_filter(delta_range, option_type, row)

\* OptionSelector.select
OptionSelector_select(df, delta_range, option_type, rank) ==
    IF df = <<>> THEN df
    ELSE SelectSeq(df, LAMBDA row : Selected(df, delta_range, option_type, rank, row))

\* options_data[(strike == s) & (type == t) & (date == date)]
RowsAt(options_data, strike, option_type) ==
    SelectSeq(options_data, LAMBDA row : row.strike = strike /\ row.type = option_type)

\* the dict appended to iron_condors for the four rows, with the rows kept
Condor(put_short, put_long, call_short, call_long) ==
    LET total_credit == (put_short.close - put_long.close) + (call_short.close - call_long.close)
    IN [dte |-> put_short.dte,
        put_short_strike |-> put_short.strike, put_long_strike |-> put_long.strike,
        call_short_strike |-> call_short.strike, call_long_strike |-> call_long.strike,
        put_short_price |-> put_short.close, put_long_price |-> put_long.close,
        call_short_price |-> call_short.close, call_long_price |-> call_long.close,
        put_short_delta |-> put_short.delta, put_long_delta |-> put_long.delta,
        call_short_delta |-> call_short.delta, call_long_delta |-> call_long.delta,
        total_credit |-> total_credit,
        max_risk |-> spread_width * 100 - total_credit,
        return_on_risk |-> (total_credit * 100) \div spread_width,
        rows |-> <<put_short, put_long, call_short, call_long>>]

\* the condors built for one short put
CondorsOfPut(options_data, put_short, call_shorts) ==
    LET put_long == RowsAt(options_data, put_short.strike - spread_width, "put")
        built(call_short) ==
            LET call_long == RowsAt(options_data, call_short.strike + spread_width, "call")
            IN IF call_long = <<>> THEN <<>>
               ELSE <<Condor(put_short, put_long[1], call_short, call_long[1])>>
    IN IF put_long = <<>> THEN <<>>
       ELSE Flatten([k \in 1..Len(call_shorts) |-> built(call_shorts[k])])

\* sort_values('return_on_risk', ascending=False); equal keys keep their order
RECURSIVE SortByReturnOnRisk(_)
SortByReturnOnRisk(condors) ==
    IF condors = <<>> THEN <<>>
    ELSE LET n == Len(condors)
             front == SortByReturnOnRisk(SubSeq(condors, 1, n - 1))
             last == condors[n]
             k == Cardinality({i \in 1..Len(front) : front[i].return_on_risk >= last.return_on_risk})
         IN SubSeq(front, 1, k) \o <<last>> \o SubSeq(front, k + 1, Len(front))

IronCondor_scan(options_data, rank) ==
    LET puts == SelectSeq(options_data, LAMBDA row : row.type = "put")
        calls == SelectSeq(options_data, LAMBDA row : row.type = "call")
        put_shorts == OptionSelector_select(puts, short_delta_range, "put", rank)
        call_shorts == OptionSelector_select(calls, short_delta_range, "call", rank)
        iron_condors == Flatten([k \in 1..Len(put_shorts) |->
                                    CondorsOfPut(options_data, put_shorts[k], call_shorts)])
        df_condors == SelectSeq(iron_condors, LAMBDA c : c.total_credit >= min_total_credit)
    IN IF put_shorts = <<>> \/ call_shorts = <<>> THEN <<>>
       ELSE SortByReturnOnRisk(df_condors)

\* the rows of one expiration in a chain made from the choices k
ExpirationRows(k, dte) ==
    LET more == IF dte = 40 THEN 30 ELSE 0
        row(type, strike, close, delta, volume) ==
            [type |-> type, strike |-> strike, dte |-> dte, close |-> close + more,
             delta |-> delta, volume |-> volume, oi |-> 100 + volume]
    IN (IF dte = 40 /\ k.far_long_put = "missing" THEN <<>>
        ELSE <<row("put", 90, 50, k.long_put_delta, k.long_volume)>>)
       \o <<row("put", 95, 150, k.short_delta, 100),
            row("call", 105, 150, k.short_delta, 100),
            row("call", 110, 50, k.long_call_delta, k.long_volume)>>

ScanChain(k) ==
    IF k.listed = "near" THEN ExpirationRows(k, 20)
    ELSE IF k.listed = "far" THEN ExpirationRows(k, 40)
    ELSE IF k.listed = "near_first" THEN ExpirationRows(k, 20) \o ExpirationRows(k, 40)
    ELSE ExpirationRows(k, 40) \o ExpirationRows(k, 20)

ScanChoices ==
    [listed : {"near", "far", "near_first", "far_first"},
     far_long_put : {"listed", "missing"},
     short_delta : {20, 30},
     long_put_delta : {8, 14},
     long_call_delta : {8, 3},
     long_volume : {100, 0}]

ScanInit ==
    /\ Idle
    /\ \E k \in ScanChoices :
          probe = [call |-> "IronCondor.scan", options_data |-> ScanChain(k),
                   iv_rank |-> iv_rank, scanned |-> FALSE, condors |-> <<>>]

Scan ==
    /\ probe.call = "IronCondor.scan"
    /\ ~probe.scanned
    /\ probe' = [probe EXCEPT !.scanned = TRUE,
                              !.condors = IronCondor_scan(probe.options_data, probe.iv_rank)]
    /\ OnlyProbe

ScanSpec == ScanInit /\ [][Scan]_vars

\* ------------------------------------------------------------------------
\* The pricing functions called on their own.  S and K in dollars, T in
\* days, r and sigma in percent.
\* ------------------------------------------------------------------------
PricingFunctions == {"black_scholes_price", "calculate_d1_d2", "calculate_greeks"}
PricingSpots == {-5, 0, 100}
PricingStrikes == {-5, 0, 95}
PricingTimes == {-1, 0, 30}
PricingRates == {-101, -100, 5, 100, 101}
PricingVols == {-20, 0, 25}
PricingTypes == {"call", "put", "straddle"}

PricingInit ==
    /\ Idle
    /\ \E f \in PricingFunctions, S \in PricingSpots, K \in PricingStrikes, T \in PricingTimes,
          r \in PricingRates, sigma \in PricingVols, option_type \in PricingTypes :
          /\ f # "black_scholes_price" => option_type = "call"
          /\ probe = [call |-> "quantitative", function |-> f, S |-> S, K |-> K, T |-> T,
                      r |-> r, sigma |-> sigma, option_type |-> option_type,
                      returned |-> FALSE, raised |-> FALSE]

CallPricing ==
    /\ probe.call = "quantitative"
    /\ ~probe.returned
    /\ probe' = [probe EXCEPT
          !.returned = TRUE,
          !.raised =
              IF probe.function = "black_scholes_price"
              THEN black_scholes_price(probe.S, probe.K, probe.T, probe.r, probe.sigma,
                                       probe.option_type) = Invalid
              ELSE IF probe.function = "calculate_d1_d2"
              THEN calculate_d1_d2(probe.S, probe.K, probe.T, probe.r, probe.sigma) = ValueError
              ELSE calculate_greeks(probe.S, probe.K, probe.T, probe.r, probe.sigma) = ValueError]
    /\ OnlyProbe

PricingSpec == PricingInit /\ [][CallPricing]_vars

\* ------------------------------------------------------------------------
\* Construction of the engine over the files of the configured tickers,
\* and the start of run_multi_ticker_backtest.  A file is "ok", lacks a
\* required column, does not exist, or has no date in the requested range.
\* ------------------------------------------------------------------------
FileStates == {"ok", "missing_column", "no_file", "out_of_range"}
ConfiguredTickers == {<<"SPY", "GLD", "TSLA">>, <<"SPY", "GLD">>}

\* MarketDataLoader.load_ticker_data: the exception raised, or "loaded"
load_ticker_data(file) ==
    IF file = "no_file" THEN "FileNotFoundError"
    ELSE IF file = "missing_column" THEN "ValueError: Columnas faltantes"
    ELSE "loaded"

\* the body of the loop of _validate_tickers: whether the ticker is appended;
\* both except clauses only print
TickerIsValid(file) ==
    /\ load_ticker_data(file) = "loaded"
    /\ file # "out_of_range"

\* BacktestEngine._validate_tickers: self.valid_tickers and the error raised
_validate_tickers(tickers, files) ==
    LET valid == SelectSeq(tickers, LAMBDA t : TickerIsValid(files[t]))
    IN [valid_tickers |-> valid,
        error |-> IF valid = <<>> THEN "ValueError: Ningun ticker tiene datos disponibles"
                  ELSE "none"]

EngineInit ==
    /\ Idle
    /\ \E tickers \in ConfiguredTickers :
          \E files \in [Range(tickers) -> FileStates] :
              probe = [call |-> "BacktestEngine", tickers |-> tickers, files |-> files,
                       stage |-> "new", valid_tickers |-> <<>>, error |-> "none"]

\* BacktestEngine(config)
Construct ==
    /\ probe.call = "BacktestEngine"
    /\ probe.stage = "new"
    /\ LET validated == _validate_tickers(probe.tickers, probe.files)
       IN probe' = [probe EXCEPT
              !.valid_tickers = validated.valid_tickers,
              !.error = validated.error,
              !.stage = IF validated.error = "none" THEN "constructed" ELSE "failed"]
    /\ OnlyProbe

\* run_multi_ticker_backtest on the engine constructed: the day loop starts
\* over the dates of self.valid_tickers
StartRun ==
    /\ probe.call = "BacktestEngine"
    /\ probe.stage = "constructed"
    /\ probe' = [probe EXCEPT !.stage = "simulating"]
    /\ OnlyProbe

EngineNext ==
    \/ Construct
    \/ StartRun

EngineSpec == EngineInit /\ [][EngineNext]_vars

TypeOK ==
    /\ pc \in {"manage", "find", "record", "close", "done"}
    /\ day \in 0..NumDays
    /\ capital \in Int

\* ------------------------------------------------------------------------
\* Properties
\* ------------------------------------------------------------------------
OpenIds == {positions[i].id : i \in 1..Len(positions)}
ClosedIds == {closed_positions[i].id : i \in 1..Len(closed_positions)}
AdmittedIds == 1..Len(reserved)

TimesOpen(id) == Cardinality({i \in 1..Len(positions) : positions[i].id = id})
TimesClosed(id) == Cardinality({i \in 1..Len(closed_positions) : closed_positions[i].id = id})

\* C1: at every point of a run, cash plus the max_risk of the open positions
\* equals the initial capital plus the pnl of the positions in the closed
\* ledger.
C1_CapitalInvariant ==
    capital + SumSeq([i \in 1..Len(positions) |-> positions[i].max_risk])
        = config.initial_capital
          + SumSeq([i \in 1..Len(closed_positions) |-> closed_positions[i].pnl])

\* C2: the max_risk of every admitted position is deducted from cash exactly
\* once, and added back exactly once when the position has left the open
\* set (never zero times, never twice) and not before.
C2_ReleasedExactlyOnce ==
    \A id \in AdmittedIds :
        /\ reserved[id] = 1
        /\ released[id] = IF id \in OpenIds THEN 0 ELSE 1

\* C3: every position ever admitted is in exactly one of the open
\* collection and the closed ledger, at every point of the run.
C3_NeverDeleted ==
    \A id \in AdmittedIds : TimesOpen(id) + TimesClosed(id) = 1

\* C4: a position that has received a terminal status keeps it for the rest
\* of the run: it is in the closed ledger exactly once, its ledger record
\* never changes, and it is not in the open collection, whose members all
\* have status open.
C4_InLedgerOnce ==
    /\ \A i \in 1..Len(positions) : positions[i].status = "open"
    /\ \A i \in 1..Len(closed_positions) :
          /\ closed_positions[i].status \in TerminalStatuses
          /\ TimesClosed(closed_positions[i].id) = 1
          /\ TimesOpen(closed_positions[i].id) = 0

C4_LedgerKept ==
    /\ Len(closed_positions') >= Len(closed_positions)
    /\ \A i \in 1..Len(closed_positions) : closed_positions'[i] = closed_positions[i]

C4_TerminalIsFinal == [](C4_InLedgerOnce) /\ [][C4_LedgerKept]_vars

\* a position closed on an earlier date is still in the ledger while other
\* positions are open or closing
C4_Witness ==
    /\ \E i \in 1..Len(closed_positions) :
          /\ closed_positions[i].exit_date < current_date
          /\ closed_positions[i].status \in {"closed_profit", "closed_loss"}
    /\ \E i \in 1..Len(closed_positions) : closed_positions[i].exit_date = current_date
    /\ positions # <<>>

\* C5: the number of open positions never exceeds config.max_positions.
C5_GlobalCap == Len(positions) <= config.max_positions

\* the cap is full and a candidate of today was left out because of it
C5_Witness ==
    /\ Len(positions) = config.max_positions
    /\ \E i \in 1..Len(selection) : selection[i].decision = "global_cap"
    /\ \E i \in 1..Len(selection) : selection[i].decision = "admitted"

\* C6: for every instrument, the number of open positions on it never
\* exceeds config.max_positions_per_ticker.
C6_PerTickerCap ==
    \A t \in Tickers : TickerPositions(positions, t) <= config.max_positions_per_ticker

\* an instrument with several candidates in today's pool is at its cap,
\* one of them admitted today and another left out because of the cap
C6_Witness ==
    \E t \in Tickers :
        /\ TickerPositions(positions, t) = config.max_positions_per_ticker
        /\ \E i, j \in 1..Len(selection) :
              /\ selection[i].ticker = t /\ selection[i].decision = "admitted"
              /\ selection[j].ticker = t /\ selection[j].decision = "ticker_cap"

\* the candidates of today's pool in the order the selection loop met them
Considered == SelectSeq(selection, LAMBDA e : e.decision # "not_pooled")

CashAfter(e) == IF e.decision = "admitted" THEN e.cash - Abs(e.max_risk) ELSE e.cash

\* C7: a candidate is admitted only when the cash at the moment it is
\* considered covers its max_risk, the deduction is made before the next
\* candidate of the day is considered, and cash is never negative.
C7_CashCoversAdmission ==
    /\ capital >= 0
    /\ \A i \in 1..Len(Considered) :
          /\ Considered[i].decision = "admitted" => Considered[i].cash >= Abs(Considered[i].max_risk)
          /\ i < Len(Considered) => Considered[i + 1].cash = CashAfter(Considered[i])
    /\ Considered # <<>> => capital = CashAfter(Considered[Len(Considered)])

\* a candidate was admitted and a later one of the same day was refused
\* because the cash left after the deduction did not cover it
C7_Witness ==
    \E i, j \in 1..Len(Considered) :
        /\ i < j
        /\ Considered[i].decision = "admitted"
        /\ Considered[j].decision = "cash"
        /\ Considered[j].cash < Considered[i].cash
        /\ Considered[i].cash >= Abs(Considered[j].max_risk)

\* the day's scans returned one candidate for each of two instruments, with
\* scores 0.8 (entry hi) and 0.6 (entry lo), and the cash at the start of
\* the selection covers either of them but not both
TwoCandidatesOneSlot(hi, lo) ==
    /\ Len(selection) = 2
    /\ hi \in 1..2 /\ lo \in 1..2 /\ hi # lo
    /\ selection[hi].ticker # selection[lo].ticker
    /\ selection[hi].quality_score = 8000
    /\ selection[lo].quality_score = 6000
    /\ selection[1].cash >= Abs(selection[hi].max_risk)
    /\ selection[1].cash >= Abs(selection[lo].max_risk)
    /\ selection[1].cash < Abs(selection[hi].max_risk) + Abs(selection[lo].max_risk)

\* C8: when two instruments each produce one candidate on the same day with
\* scores 0.8 and 0.6 and the cash covers only one of them, the one admitted
\* is the 0.8 candidate and the 0.6 candidate is not admitted.
C8_HigherScoreWins ==
    \A hi, lo \in 1..2 :
        TwoCandidatesOneSlot(hi, lo) =>
            /\ selection[hi].decision = "admitted"
            /\ selection[lo].decision # "admitted"

\* the case has happened, with the 0.6 candidate on the instrument that is
\* scanned first
C8_Witness ==
    \E hi, lo \in 1..2 :
        /\ TwoCandidatesOneSlot(hi, lo)
        /\ selection[lo].ticker = valid_tickers[1]
        /\ selection[hi].id # 0

\* C9 (as claimed): every row the scans return is scored and pooled, the
\* pool is processed in non-increasing score order, and whenever a candidate
\* X is admitted and a scan row Y of the same day with a higher score is
\* not, Y failed the global cap, its instrument's cap or the cash check.
C9_EveryScanRowCompetes ==
    \A x, y \in 1..Len(selection) :
        (/\ selection[x].decision = "admitted"
         /\ selection[y].decision # "admitted"
         /\ selection[y].quality_score > selection[x].quality_score)
        => selection[y].decision \in {"global_cap", "ticker_cap", "cash"}

\* the check a refused candidate is logged with did fail when it was met
CheckFailed(e) ==
    CASE e.decision = "global_cap" -> e.open >= config.max_positions
      [] e.decision = "ticker_cap" -> e.ticker_open >= config.max_positions_per_ticker
      [] e.decision = "cash" -> e.cash < Abs(e.max_risk)
      [] e.decision = "admitted" ->
            /\ e.open < config.max_positions
            /\ e.ticker_open < config.max_positions_per_ticker
            /\ e.cash >= Abs(e.max_risk)
      [] OTHER -> FALSE

\* C9 (amended): only the first three rows of each scan are scored and
\* pooled, a later row never is; the pool is processed in non-increasing
\* score order; a pooled candidate is left out only because the global cap,
\* its instrument's cap or the cash check fails when it is met, so whenever
\* X is admitted and a pooled Y of the same day with a higher score is not,
\* Y was met before X and failed one of the three checks.
C9_PooledRowsCompete ==
    /\ \A i \in 1..Len(selection) :
          (selection[i].decision = "not_pooled") <=> (selection[i].idx > TopRows)
    /\ \A i \in 1..Len(Considered) :
          /\ CheckFailed(Considered[i])
          /\ i < Len(Considered) =>
                Considered[i].quality_score >= Considered[i + 1].quality_score
    /\ \A x, y \in 1..Len(Considered) :
          (/\ Considered[x].decision = "admitted"
           /\ Considered[y].decision # "admitted"
           /\ Considered[y].quality_score > Considered[x].quality_score)
          => /\ y < x
             /\ Considered[y].decision \in {"global_cap", "ticker_cap", "cash"}

\* a pooled candidate with a higher score than an admitted one was refused,
\* and the pool was not in score order when it was collected
C9_Witness ==
    /\ \E x, y \in 1..Len(Considered) :
          /\ Considered[x].decision = "admitted"
          /\ Considered[y].decision \in {"ticker_cap", "cash"}
          /\ Considered[y].quality_score > Considered[x].quality_score
    /\ \E i \in 1..Len(selection) : selection[i].decision = "not_pooled"

\* the position of the scenario: four legs, credit $2.00, 40 DTE
IsScenarioPosition(p) ==
    /\ Len(p.legs) = 4
    /\ p.premium_collected = 200
    /\ p.dte_at_entry = 40

\* premium_collected - mark-to-model value of an open position on a date,
\* None when the position cannot be valued that day
MarkToModelPnl(position, rows, date) ==
    LET underlying_price == get_underlying_price(rows)
        market_value == _calculate_position_value(rows, position, date)
        model_value == _estimate_value_with_model(rows, position, date, underlying_price)
        current_value == IF market_value # None THEN market_value ELSE model_value
    IN IF ~Truthy(underlying_price) \/ current_value = None THEN None
       ELSE position.premium_collected - current_value

StaysOpen(p) ==
    /\ \E i \in 1..Len(positions') : positions'[i] = p
    /\ p.id \notin {closed_positions'[i].id : i \in 1..Len(closed_positions')}

ClosedToday(p, status, pnl, date) ==
    /\ p.id \notin {positions'[i].id : i \in 1..Len(positions')}
    /\ \E i \in 1..Len(closed_positions') :
          /\ closed_positions'[i].id = p.id
          /\ closed_positions'[i].status = status
          /\ closed_positions'[i].pnl = pnl
          /\ closed_positions'[i].exit_date = date

\* one day's management of the open scenario positions that have not
\* expired: they stay open while the day's PnL is below `target(p)` and
\* are closed as closed_profit when it is at least `target(p)`
ScenarioDay(target(_), floor(_)) ==
    pc = "manage" =>
        \A i \in 1..Len(positions) :
            LET p == positions[i]
                date == DateOf(day')
                pnl == MarkToModelPnl(p, ChainRows(p.ticker, market'[p.ticker]), date)
            IN (IsScenarioPosition(p) /\ date < p.expiration_date) =>
                  /\ pnl = None => StaysOpen(p)
                  /\ (pnl # None /\ pnl < target(p) /\ pnl > floor(p)) => StaysOpen(p)
                  /\ (pnl # None /\ pnl >= target(p)) => ClosedToday(p, "closed_profit", pnl, date)

HundredDollars(p) == 100
NoFloor(p) == None
AdaptiveTarget(p) == (p.premium_collected * _build_config(p.ticker).profit_target_pct) \div 100
StopFloor(p) == -p.stop_loss

\* C10 (as claimed): the scenario position stays open on every day its
\* mark-to-model PnL is below 100 and is closed as closed_profit on the
\* first day its PnL is at least 100.
C10_ClosesAtHundred == [][ScenarioDay(HundredDollars, NoFloor)]_vars

\* C10 (amended): the scenario position carries profit_target = 200 x the
\* adaptive profit-target percentage of its instrument / 100, which is below
\* 100 for every classified instrument; on every day before its expiration
\* it stays open when it cannot be valued or its PnL is above -stop_loss and
\* below profit_target, and it is closed as closed_profit on the first day
\* its PnL is at least profit_target.
C10_ScenarioThreshold ==
    \A i \in 1..Len(positions) :
        IsScenarioPosition(positions[i]) =>
            /\ positions[i].profit_target = AdaptiveTarget(positions[i])
            /\ positions[i].profit_target < 100

C10_ClosesAtAdaptiveTarget ==
    [](C10_ScenarioThreshold) /\ [][ScenarioDay(AdaptiveTarget, StopFloor)]_vars

\* a scenario position was held over a trading date and closed as
\* closed_profit on a later one with a PnL between its target and 100
C10_Witness ==
    \E i \in 1..Len(closed_positions) :
        /\ IsScenarioPosition(closed_positions[i])
        /\ closed_positions[i].status = "closed_profit"
        /\ closed_positions[i].days_held >= 2 * DayGap
        /\ closed_positions[i].pnl >= closed_positions[i].profit_target
        /\ closed_positions[i].pnl < 100

\* the rows one day's management reads for a position
RowsRead(p) == ChainRows(p.ticker, market'[p.ticker])

\* the position is open, not expired on the date being managed, and valued
ValuedToday(p) ==
    /\ DateOf(day') < p.expiration_date
    /\ MarkToModelPnl(p, RowsRead(p), DateOf(day')) # None

\* C11: an open, unexpired position valued on a day with PnL =
\* premium_collected - mark-to-model value becomes closed_profit exactly
\* when PnL >= profit_target (so the profit target wins when both exits
\* apply), becomes closed_loss exactly when PnL < profit_target and
\* PnL <= -stop_loss, and otherwise stays open unchanged with its reserve
\* not released; when this is the case of every open position, cash and both
\* collections are unchanged.
C11_ExitStep ==
    pc = "manage" =>
        /\ \A i \in 1..Len(positions) :
              LET p == positions[i]
                  date == DateOf(day')
                  pnl == MarkToModelPnl(p, RowsRead(p), date)
              IN ValuedToday(p) =>
                    /\ (pnl >= p.profit_target) <=> ClosedToday(p, "closed_profit", pnl, date)
                    /\ (pnl < p.profit_target /\ pnl <= -p.stop_loss)
                          <=> ClosedToday(p, "closed_loss", pnl, date)
                    /\ (pnl < p.profit_target /\ pnl > -p.stop_loss) =>
                          /\ StaysOpen(p)
                          /\ released'[p.id] = released[p.id]
        /\ (\A i \in 1..Len(positions) :
              LET p == positions[i]
                  pnl == MarkToModelPnl(p, RowsRead(p), DateOf(day'))
              IN ValuedToday(p) /\ pnl < p.profit_target /\ pnl > -p.stop_loss)
           => UNCHANGED <<capital, positions, closed_positions>>

C11_ExitRule == [][C11_ExitStep]_vars

\* a position was closed at its stop loss while another one, entered
\* earlier and valued between its two thresholds, is still open
C11_Witness ==
    /\ pc = "find"
    /\ \E i \in 1..Len(closed_positions) :
          /\ closed_positions[i].status = "closed_loss"
          /\ closed_positions[i].exit_date = current_date
          /\ closed_positions[i].pnl <= -closed_positions[i].stop_loss
    /\ \E i \in 1..Len(positions) :
          LET p == positions[i]
              pnl == MarkToModelPnl(p, Rows(p.ticker), current_date)
          IN /\ p.entry_date < current_date
             /\ current_date < p.expiration_date
             /\ pnl # None /\ pnl < p.profit_target /\ pnl > -p.stop_loss

\* the expired terminal status for a PnL
ExpiredStatus(pnl) == IF pnl > 0 THEN "expired_profitable" ELSE "expired_loss"

\* C12: on a day with current_date >= expiration_date an open position is
\* settled from the per-leg intrinsic value at that day's underlying price
\* and leaves the open set that day with the expired status of its PnL's
\* sign; no position is closed as closed_profit or closed_loss on or after
\* its expiration date.
C12_ExpiryStep ==
    pc = "manage" =>
        \A i \in 1..Len(positions) :
            LET p == positions[i]
                date == DateOf(day')
                final_price == get_underlying_price(RowsRead(p))
                pnl == _calculate_expiry_pnl(p, final_price)
            IN date >= p.expiration_date =>
                  ClosedToday(p, ExpiredStatus(pnl), pnl, date)

C12_NoEarlyExitStatus ==
    \A i \in 1..Len(closed_positions) :
        closed_positions[i].status \in {"closed_profit", "closed_loss"} =>
            closed_positions[i].exit_date < closed_positions[i].expiration_date

C12_ExpirationFirst == [](C12_NoEarlyExitStatus) /\ [][C12_ExpiryStep]_vars

\* the rows of a date that quote a leg for the position's expiration
LegQuotes(p, leg, rows, date) ==
    {r \in rows : /\ date + r.dte = p.expiration_date
                  /\ r.strike = leg.strike /\ r.type = leg.type
                  /\ (r.close # None \/ r.vwap # None)}

AllLegsQuoted(p, rows, date) ==
    \A k \in 1..Len(p.legs) : LegQuotes(p, p.legs[k], rows, date) # {}

\* short legs minus long legs, each at its close, or its vwap without a close
QuotedValue(p, rows, date) ==
    SumSeq([k \in 1..Len(p.legs) |->
              LET r == CHOOSE x \in LegQuotes(p, p.legs[k], rows, date) : TRUE
                  price == IF r.close # None THEN r.close ELSE r.vwap
              IN IF p.legs[k].position = "short" THEN price ELSE -price])

\* the position is open, not expired on the date being managed, and its
\* instrument has an underlying price that day
PricedToday(p) ==
    /\ DateOf(day') < p.expiration_date
    /\ Truthy(get_underlying_price(RowsRead(p)))

ModelValueToday(p) ==
    _estimate_value_with_model(RowsRead(p), p, DateOf(day'), get_underlying_price(RowsRead(p)))

Count(S) == Cardinality(S)

\* C13: the market-quote valuation yields a value only when every leg has
\* a price for the date and the position's expiration, and then it is the
\* sum over all legs (never a partial sum); otherwise the pricing-model
\* value is used; when that yields nothing either the position is skipped
\* for the day: it stays open unchanged, its reserve is not released, and
\* when this is the case of every open position cash and both collections
\* are unchanged; being still open it is evaluated again the next day.
C13_FallbackStep ==
    pc = "manage" =>
        /\ \A i \in 1..Len(positions) :
              LET p == positions[i]
                  date == DateOf(day')
                  rows == RowsRead(p)
                  market_value == _calculate_position_value(rows, p, date)
                  model_value == ModelValueToday(p)
                  value_used == IF AllLegsQuoted(p, rows, date)
                                THEN QuotedValue(p, rows, date) ELSE model_value
              IN PricedToday(p) =>
                    /\ (market_value # None) <=> AllLegsQuoted(p, rows, date)
                    /\ market_value # None => market_value = QuotedValue(p, rows, date)
                    /\ value_used # None =>
                          \A j \in 1..Len(closed_positions') :
                              closed_positions'[j].id = p.id =>
                                  /\ closed_positions'[j].exit_value = value_used
                                  /\ closed_positions'[j].pnl = p.premium_collected - value_used
                    /\ value_used = None =>
                          /\ StaysOpen(p)
                          /\ released'[p.id] = released[p.id]
        /\ bsm_fallback_used' = bsm_fallback_used +
              Count({i \in 1..Len(positions) :
                        /\ PricedToday(positions[i])
                        /\ ~AllLegsQuoted(positions[i], RowsRead(positions[i]), DateOf(day'))
                        /\ ModelValueToday(positions[i]) # None})
        /\ (\A i \in 1..Len(positions) :
               /\ PricedToday(positions[i])
               /\ ~AllLegsQuoted(positions[i], RowsRead(positions[i]), DateOf(day'))
               /\ ModelValueToday(positions[i]) = None)
           => UNCHANGED <<capital, positions, closed_positions>>

ZeroRowsFor(p) ==
    /\ DateOf(day') < p.expiration_date
    /\ ~ \E r \in RowsRead(p) : DateOf(day') + r.dte = p.expiration_date

\* C14 (as claimed): when the chain has zero rows for the (date,
\* expiration) pair of an open position, that position does not change
\* status that day and the valuation-unavailable counter goes up by exactly
\* one for each position whose legs cannot be resolved from the quotes.
C14_ZeroRowsStep ==
    pc = "manage" =>
        /\ \A i \in 1..Len(positions) : ZeroRowsFor(positions[i]) => StaysOpen(positions[i])
        /\ (\E i \in 1..Len(positions) : ZeroRowsFor(positions[i])) =>
              valorization_failures' = valorization_failures +
                  Count({i \in 1..Len(positions) :
                            /\ DateOf(day') < positions[i].expiration_date
                            /\ ~AllLegsQuoted(positions[i], RowsRead(positions[i]), DateOf(day'))})

C14_ZeroRowsFallbackStep ==
    pc = "manage" =>
        /\ \A i \in 1..Len(positions) :
              LET p == positions[i]
                  date == DateOf(day')
                  model_value == ModelValueToday(p)
                  pnl == p.premium_collected - model_value
              IN ZeroRowsFor(p) =>
                    /\ ~PricedToday(p) => StaysOpen(p)
                    /\ (PricedToday(p) /\ model_value = None) => StaysOpen(p)
                    /\ (PricedToday(p) /\ model_value # None) =>
                          /\ pnl >= p.profit_target => ClosedToday(p, "closed_profit", pnl, date)
                          /\ (pnl < p.profit_target /\ pnl <= -p.stop_loss)
                                => ClosedToday(p, "closed_loss", pnl, date)
                          /\ (pnl < p.profit_target /\ pnl > -p.stop_loss) => StaysOpen(p)
        /\ valorization_attempts' = valorization_attempts +
              Count({i \in 1..Len(positions) : PricedToday(positions[i])})
        /\ valorization_failures' = valorization_failures +
              Count({i \in 1..Len(positions) :
                        /\ PricedToday(positions[i])
                        /\ ~AllLegsQuoted(positions[i], RowsRead(positions[i]), DateOf(day'))})
        /\ \A i \in 1..Len(positions) :
              (ZeroRowsFor(positions[i]) /\ PricedToday(positions[i])) =>
                  ~AllLegsQuoted(positions[i], RowsRead(positions[i]), DateOf(day'))

UnrealizedToday ==
    SumSeq([i \in 1..Len(positions) |->
              LET pnl == MarkToModelPnl(positions[i], Rows(positions[i].ticker), current_date)
              IN IF pnl = None THEN 0 ELSE pnl])

ReservedToday == SumSeq([i \in 1..Len(positions) |-> Abs(positions[i].max_risk)])

C15_OnePerDay ==
    Len(equity_curve) = IF pc \in {"find", "record"} THEN day - 1 ELSE day

C15_RecordStep ==
    pc = "record" =>
        /\ Len(equity_curve') = Len(equity_curve) + 1
        /\ SubSeq(equity_curve', 1, Len(equity_curve)) = equity_curve
        /\ equity_curve'[Len(equity_curve')].date = current_date
        /\ equity_curve'[Len(equity_curve')].equity = capital + ReservedToday + UnrealizedToday

\* C15: exactly one equity record is appended per simulated day, and its
\* equity is cash + the reserved max_risk of all open positions + the sum of
\* premium_collected - mark-to-model value over the open positions that
\* could be valued that day, each marked with its own instrument's data.
C15_EquityRecord == [](C15_OnePerDay) /\ [][C15_RecordStep]_vars

\* C16: when the run ends the open collection is empty and every position
\* that was still open after the last simulated day is in the closed ledger
\* with status closed_end, a pnl and the final date as exit date, and its
\* reserved capital is back in cash.
C16_CloseOutStep ==
    pc = "close" =>
        /\ positions' = <<>>
        /\ pc' = "done"
        /\ \A i \in 1..Len(positions) :
              /\ \E j \in 1..Len(closed_positions') :
                    /\ closed_positions'[j].id = positions[i].id
                    /\ closed_positions'[j].status = "closed_end"
                    /\ closed_positions'[j].pnl # None
                    /\ closed_positions'[j].exit_date = current_date
              /\ released'[positions[i].id] = released[positions[i].id] + 1
        /\ capital' = capital + ReservedToday

C16_AllClosedAtEnd == [][C16_CloseOutStep]_vars

\* what a leg earns when it ends at intrinsic value: a short leg keeps its
\* entry price and pays the intrinsic value, a long leg the reverse
Intrinsic(leg, S) ==
    IF leg.type = "call" THEN Max(0, S - leg.strike) ELSE Max(0, leg.strike - S)

LegPnlAtIntrinsic(leg, S) ==
    IF leg.position = "short" THEN leg.price - Intrinsic(leg, S) * 100
    ELSE Intrinsic(leg, S) * 100 - leg.price

LegsWhere(legs, position) == {i \in 1..Len(legs) : legs[i].position = position}

RECURSIVE SumOver(_, _)
SumOver(S, f) ==
    IF S = {} THEN 0
    ELSE LET i == CHOOSE x \in S : TRUE IN f[i] + SumOver(S \ {i}, f)

\* C17: for a position whose premium_collected is the signed sum of its
\* legs' entry prices x 100 and any final underlying price, the expiry PnL
\* is the sum of the legs' PnL at intrinsic value, which is
\* premium_collected - (short-leg intrinsic x 100 - long-leg intrinsic x 100).
C17_ExpiryPnlIsLegSum ==
    (probe.call = "_calculate_expiry_pnl" /\ probe.pnl # None) =>
        LET legs == probe.position.legs
            S == probe.final_price
            worth == [i \in 1..Len(legs) |-> Intrinsic(legs[i], S) * 100]
        IN /\ probe.pnl = SumSeq([i \in 1..Len(legs) |-> LegPnlAtIntrinsic(legs[i], S)])
           /\ probe.pnl = probe.position.premium_collected
                            - (SumOver(LegsWhere(legs, "short"), worth)
                               - SumOver(LegsWhere(legs, "long"), worth))

\* the PnL was computed for a four-leg position with a long and a short leg
\* in the money
C17_Witness ==
    /\ probe.call = "_calculate_expiry_pnl"
    /\ probe.pnl # None
    /\ Len(probe.position.legs) = 4
    /\ \E i, j \in 1..4 :
          /\ probe.position.legs[i].position = "short"
          /\ probe.position.legs[j].position = "long"
          /\ Intrinsic(probe.position.legs[i], probe.final_price) > 0
          /\ Intrinsic(probe.position.legs[j], probe.final_price) > 0

\* C18: every record of the closed ledger has pnl >= -max_risk.
C18_LossWithinMaxRisk ==
    \A i \in 1..Len(closed_positions) :
        closed_positions[i].pnl >= -closed_positions[i].max_risk

\* C19: two lookups of the same instrument return identical
\* (profit_target_pct, stop_loss_pct, dte_min, dte_max), in whatever order
\* the calls are made and whether the entry was preloaded, built on the fly
\* or served from the cache.
C19_LookupIsPure ==
    \A i, j \in 1..Len(lookups) :
        lookups[i].ticker = lookups[j].ticker =>
            /\ lookups[i].params = lookups[j].params
            /\ lookups[i].call = lookups[j].call => lookups[i].result = lookups[j].result

\* an unknown instrument was built on the fly and then served from the
\* cache by another call, and a preloaded instrument was looked up too
C19_Witness ==
    /\ \E i, j \in 1..Len(lookups) :
          /\ i < j
          /\ lookups[i].ticker = lookups[j].ticker
          /\ lookups[i].origin = "built" /\ lookups[j].origin = "cached"
          /\ lookups[i].call # lookups[j].call
    /\ \E k \in 1..Len(lookups) : lookups[k].origin = "preloaded"

\* the parameters the tables give an instrument
TableParams(ticker) ==
    LET class == IF ticker \in DOMAIN TICKER_CLASSIFICATIONS
                 THEN TICKER_CLASSIFICATIONS[ticker] ELSE <<"ETF", "Medium">>
        base == <<VOLATILITY_CONFIGS[class[2]].profit_target_pct,
                  VOLATILITY_CONFIGS[class[2]].stop_loss_pct,
                  DTE_CONFIGS[class[1]].dte_min,
                  DTE_CONFIGS[class[1]].dte_max>>
        override == IF ticker \in DOMAIN TICKER_OVERRIDES
                    THEN TICKER_OVERRIDES[ticker]
                    ELSE [profit_target_pct |-> None, stop_loss_pct |-> None]
    IN <<IF override.profit_target_pct # None THEN override.profit_target_pct ELSE base[1],
         IF override.stop_loss_pct # None THEN override.stop_loss_pct ELSE base[2],
         base[3], base[4]>>

\* C20: the parameters returned are the profit-target % and stop-loss % of
\* the instrument's volatility category and the DTE window of its asset
\* class, with each field present in its override replacing the base value
\* and the others kept; an instrument absent from the classification table
\* gets 35 / 150 / 49-56 and is noted as unknown.
C20_TablesThenOverride ==
    \A i \in 1..Len(lookups) :
        LET e == lookups[i]
        IN /\ e.params = TableParams(e.ticker)
           /\ e.known <=> e.ticker \in DOMAIN TICKER_CLASSIFICATIONS
           /\ e.ticker \notin DOMAIN TICKER_CLASSIFICATIONS => e.params = <<35, 150, 49, 56>>
           /\ e.ticker = "SPY" => e.params = <<30, 150, 49, 56>>
           /\ e.ticker = "TSLA" => e.params = <<20, 200, 42, 49>>
           /\ e.ticker = "GLD" => e.params = <<25, 200, 56, 60>>

\* an unknown instrument, one with an override and one without were looked up
C20_Witness ==
    /\ \E i \in 1..Len(lookups) : ~lookups[i].known
    /\ \E i \in 1..Len(lookups) : lookups[i].ticker \in DOMAIN TICKER_OVERRIDES
    /\ \E i \in 1..Len(lookups) :
          /\ lookups[i].known
          /\ lookups[i].ticker \notin DOMAIN TICKER_OVERRIDES

\* the weights of the six components, in 1/10000
ScoreWeights == <<4500, 2000, 1500, 1000, 500, 500>>

\* C21: for every candidate position and market context each of the six
\* score components lies in [0, its weight] and the total quality score
\* lies in [0, 1].
C21_ScoreBounds ==
    (probe.call = "calculate_quality_score" /\ probe.quality_score # None) =>
        /\ \A k \in 1..6 : probe.components[k] >= 0 /\ probe.components[k] <= ScoreWeights[k]
        /\ probe.quality_score >= 0 /\ probe.quality_score <= 10000

\* the condors a scan returned
Condors == IF probe.call = "IronCondor.scan" THEN probe.condors ELSE <<>>

\* C22: every Iron Condor candidate returned by scan has its long put
\* exactly spread_width below its short put, its long call exactly
\* spread_width above its short call, and all four legs at the expiration
\* recorded as the candidate's, for a chain with several expirations on the
\* date.
C22_SameExpirationLegs ==
    \A i \in 1..Len(Condors) :
        LET c == Condors[i]
        IN /\ c.put_long_strike = c.put_short_strike - spread_width
           /\ c.call_long_strike = c.call_short_strike + spread_width
           /\ \A k \in 1..4 : c.rows[k].dte = c.dte

\* C23: in every Iron Condor candidate returned by scan each short leg's
\* |delta| lies in short_delta_range, each long leg's |delta| lies in
\* long_delta_range, and every leg passes the DTE, liquidity and IV-rank
\* filters.
C23_DeltaBandsOnAllLegs ==
    \A i \in 1..Len(Condors) :
        LET c == Condors[i]
            in_band(row, band) == Abs(row.delta) >= band[1] /\ Abs(row.delta) <= band[2]
            passes(row) ==
                /\ row.dte >= dte_range[1] /\ row.dte <= dte_range[2]
                /\ row.volume >= min_volume
                /\ row.oi >= min_open_interest
                /\ probe.iv_rank >= min_iv_rank
        IN /\ in_band(c.rows[1], short_delta_range) /\ in_band(c.rows[3], short_delta_range)
           /\ in_band(c.rows[2], long_delta_range) /\ in_band(c.rows[4], long_delta_range)
           /\ \A k \in 1..4 : passes(c.rows[k])

\* a pricing function called on its own has returned or raised
PricingReturned == probe.call = "quantitative" /\ probe.returned

\* C24: black_scholes_price, calculate_d1_d2 and calculate_greeks end with
\* the invalid-input error exactly when spot <= 0, strike <= 0, time <= 0,
\* volatility <= 0 or the rate is outside [-1, 1] (black_scholes_price also
\* when the option type is neither call nor put); nothing is clamped, and
\* every in-range input yields a value.
C24_InvalidInputsRejected ==
    PricingReturned =>
        LET out_of_range ==
                \/ probe.S <= 0
                \/ probe.K <= 0
                \/ probe.T <= 0
                \/ probe.sigma <= 0
                \/ probe.r < -100
                \/ probe.r > 100
            bad_type == /\ probe.function = "black_scholes_price"
                        /\ probe.option_type \notin {"call", "put"}
        IN probe.raised <=> (out_of_range \/ bad_type)

C24_Witness ==
    /\ PricingReturned
    /\ probe.function = "calculate_greeks"
    /\ probe.S > 0 /\ probe.K > 0 /\ probe.sigma > 0 /\ probe.r = 100
    /\ probe.T = 0
    /\ probe.raised

\* every position the engine has admitted, open or in the ledger
AllPositions == positions \o closed_positions

\* the position carries the thresholds of its instrument's parameters
HasAdaptiveThresholds(p) ==
    /\ p.profit_target = (p.premium_collected * TableParams(p.ticker)[1]) \div 100
    /\ p.stop_loss = (p.max_risk * TableParams(p.ticker)[2]) \div 100

\* the thresholds construct_position had given the position
TieredThresholds(p) ==
    IF p.strategy_name = "Iron Condor"
    THEN calculate_iron_condor_risk(p.dte_at_entry, p.premium_collected)
    ELSE calculate_covered_call_risk(p.dte_at_entry, p.premium_collected)

C27_ThresholdsKept ==
    \A i \in 1..Len(positions) :
        \A j \in 1..Len(AllPositions') :
            AllPositions'[j].id = positions[i].id =>
                /\ AllPositions'[j].profit_target = positions[i].profit_target
                /\ AllPositions'[j].stop_loss = positions[i].stop_loss

\* C27: every admitted position has profit_target = premium_collected x
\* profit_target_pct / 100 and stop_loss = max_risk x stop_loss_pct / 100
\* with the percentages of its own instrument's adaptive parameters (not
\* the DTE-tiered values of construct_position), and the two thresholds are
\* those of admission for as long as the position exists.
C27_AdaptiveThresholds ==
    /\ [](\A i \in 1..Len(AllPositions) : HasAdaptiveThresholds(AllPositions[i]))
    /\ [][C27_ThresholdsKept]_vars

\* two instruments with different percentages have positions, one of them
\* admitted on an earlier day and closed since, and both thresholds of each
\* differ from the DTE-tiered ones
C27_Witness ==
    \E i, j \in 1..Len(AllPositions) :
        LET p == AllPositions[i]
            q == AllPositions[j]
        IN /\ p.ticker # q.ticker
           /\ TableParams(p.ticker)[1] # TableParams(q.ticker)[1]
           /\ p.status # "open" /\ p.entry_date < p.exit_date
           /\ \A r \in {p, q} :
                 /\ r.profit_target # TieredThresholds(r).profit_target
                 /\ r.stop_loss # TieredThresholds(r).stop_loss

\* C28: from construction until the final close-out begins, cash plus the
\* sum of |max_risk| over the open positions equals initial_capital exactly:
\* cash changes only by reserving and releasing max_risk, never by a
\* realized PnL.
C28_CashPlusReserved ==
    pc \in {"manage", "find", "record", "close"} =>
        capital + ReservedToday = config.initial_capital

\* positions are open, and positions were closed with a gain and with a loss
C28_Witness ==
    /\ pc \in {"manage", "find", "record", "close"}
    /\ positions # <<>>
    /\ \E i \in 1..Len(closed_positions) : closed_positions[i].pnl > 0
    /\ \E i \in 1..Len(closed_positions) : closed_positions[i].pnl < 0

C29_Ordered ==
    /\ bsm_fallback_used <= valorization_failures
    /\ valorization_failures <= valorization_attempts

C29_CountStep ==
    /\ bsm_fallback_used' >= bsm_fallback_used
    /\ valorization_failures' >= valorization_failures
    /\ valorization_attempts' =
          valorization_attempts +
             IF pc = "manage"
             THEN Count({i \in 1..Len(positions) : PricedToday(positions[i])})
             ELSE 0

\* C29: bsm_fallback_used <= valorization_failures <= valorization_attempts
\* at all times, none of the three ever decreases, and valorization_attempts
\* grows by exactly one for every open, unexpired position on each day on
\* which the position's instrument has an underlying-price estimate, and by
\* nothing otherwise.
C29_ValuationCounters == [](C29_Ordered) /\ [][C29_CountStep]_vars

\* a valuation by quotes and one by the pricing model have been counted, and
\* an open unexpired position went uncounted on a day without an
\* underlying price
C29_Witness ==
    /\ 0 < bsm_fallback_used
    /\ valorization_failures < valorization_attempts
    /\ pc \in {"find", "record"}
    /\ \E i \in 1..Len(positions) :
          /\ positions[i].entry_date < current_date
          /\ current_date < positions[i].expiration_date
          /\ ~Truthy(get_underlying_price(Rows(positions[i].ticker)))

\* the order of one day's steps, and what each of them touches
C30_DayStep ==
    /\ pc = "manage" =>
          /\ day' = day + 1
          /\ pc' = IF Len(positions') < config.max_positions THEN "find" ELSE "record"
          /\ equity_curve' = equity_curve
    /\ pc = "find" =>
          /\ day' = day /\ pc' = "record"
          /\ equity_curve' = equity_curve /\ closed_positions' = closed_positions
          \* the selection starts from the cash and the open positions that
          \* management left
          /\ \A i \in 1..Len(selection') :
                (\A j \in 1..(i - 1) : selection'[j].decision # "admitted") =>
                    /\ selection'[i].cash = capital
                    /\ selection'[i].open = Len(positions)
          /\ \A i \in 1..Len(positions') :
                i > Len(positions) => positions'[i].entry_date = current_date
    /\ pc = "record" =>
          /\ day' = day
          /\ UNCHANGED <<capital, positions, closed_positions>>
          /\ equity_curve'[Len(equity_curve')].date = current_date
          /\ equity_curve'[Len(equity_curve')].cash = capital
          /\ equity_curve'[Len(equity_curve')].open_positions = Len(positions)
          /\ equity_curve'[Len(equity_curve')].closed_positions = Len(closed_positions)
    /\ pc' = "record" => pc \in {"manage", "find"}

\* no position leaves by profit target, stop loss or expiration on the day
\* it was admitted
C30_NotClosedOnEntryDay ==
    \A i \in 1..Len(closed_positions) :
        closed_positions[i].status # "closed_end" =>
            closed_positions[i].exit_date > closed_positions[i].entry_date

\* C30: within each day management comes first, then selection, then the
\* equity record; the cash and the cap slots released by the closures of
\* day d are available to the admissions of day d; a position admitted on
\* day d is never closed by profit target, stop loss or expiration on day
\* d; and the equity record of day d reflects the closures and the
\* admissions of day d.
C30_DayOrder == [](C30_NotClosedOnEntryDay) /\ [][C30_DayStep]_vars

\* the equity record of a day on which a position was closed and another
\* admitted into the slot it freed
C30_Witness ==
    /\ equity_curve # <<>>
    /\ equity_curve[Len(equity_curve)].date = current_date
    /\ equity_curve[Len(equity_curve)].open_positions = config.max_positions
    /\ Len(positions) = config.max_positions
    /\ \E i \in 1..Len(closed_positions) :
          /\ closed_positions[i].exit_date = current_date
          /\ closed_positions[i].status \in {"closed_profit", "closed_loss"}
    /\ \E i \in 1..Len(positions) : positions[i].entry_date = current_date
    /\ \E i \in 1..Len(positions) : positions[i].entry_date < current_date

\* C25: when the option-chain table of a configured instrument lacks a
\* required field, constructing the engine ends with the schema error, so
\* that no simulation takes place; a run never goes on with that instrument
\* left out.
C25_SchemaErrorStopsRun ==
    (/\ probe.call = "BacktestEngine"
     /\ probe.stage # "new"
     /\ \E t \in Range(probe.tickers) : probe.files[t] = "missing_column")
        => /\ probe.stage = "failed"
           /\ probe.error = "ValueError: Columnas faltantes"

====
